---- MODULE Spec2Model ----
(***************************************************************************)
(* A model of oatpp's virtual network interface (Interface.cpp: the        *)
(* process-wide registry of named Interfaces, the submission queue and the *)
(* ConnectionSubmission future) and of its HTTP connection processing      *)
(* (HttpProcessor::processRequest, HttpProcessor::Coroutine and            *)
(* HttpConnectionHandler::Task::run).                                      *)
(*                                                                         *)
(* The three parts do not share state, so each has a specification of its  *)
(* own (SpecRegistry, SpecTransport, SpecHttp); a specification leaves the *)
(* variables of the other parts at their initial values. SpecRendezvous is *)
(* the Interface used by as many connecting as accepting threads, under    *)
(* fair scheduling; SpecCoroutineScheduled is SpecHttp with the            *)
(* continuations of the Coroutine scheduled.                               *)
(***************************************************************************)
EXTENDS Integers, Sequences, FiniteSets, TLC

(***************************************************************************)
(* Bounds of the model.                                                    *)
(***************************************************************************)
\* client threads using the registry
NThreads == 2
\* Interface objects that can be constructed in one run
MaxIfaces == 3

\* client threads using the Interface
NTrThreads == 2
\* ConnectionSubmissions that can be created in one run
MaxSubs == 2
\* request interceptors registered with addRequestInterceptor
NInterceptors == 2

Threads == 1 .. NThreads
\* the threads that use the Interface: the first NTrThreads call whatever they
\* like, or connect in the rendezvous; the others only accept in the rendezvous
TThreads == 1 .. 2 * NTrThreads
Callers == 1 .. NTrThreads
Connectors == Callers
Acceptors == TThreads \ Callers
Subs == 1 .. MaxSubs
Ifaces == 1 .. MaxIfaces
Names == {"a", "b"}

\* an empty shared_ptr / an absent map entry
NoIface == 0
\* an unowned mutex
NoThread == 0
NoName == "-"
\* a null shared_ptr<ConnectionSubmission>
NoSub == 0
\* no Pipe
NoPipe == 0

VARIABLES
  \* ---- Registry (Interface.cpp 29-81) ----
  m_registry,        \* name -> weak_ptr<Interface> (NoIface: no entry)
  m_registryMutex,   \* std::recursive_mutex: [owner, depth]
  ifaceState,        \* Interface object -> "unused" | "live" | "expired" | "destroyed"
  m_name,            \* Interface object -> its name
  held,              \* thread -> the shared_ptr<Interface> it holds (NoIface: none)
  rpc,               \* thread -> position in the registry code
  caller,            \* thread -> who called the function it is in
  nameArg,           \* thread -> the name argument / getName() of the current call
  ifArg,             \* thread -> the interface argument / this of the current call
  found,             \* thread -> whether its iterator `it` is != end()
  raced,             \* thread -> its call overlapped another thread's call
  result,            \* thread -> outcome of its last completed call
  terminated,        \* std::terminate was called (exception left a destructor)
  \* history of the registry, per name, since the entry of the name was last erased
  obtained,          \* non-null Interfaces returned by obtainShared(name)
  builtBy,           \* Interfaces constructed by obtainShared(name)
  regOk,             \* Interfaces whose registerInterface succeeded
  regDup,            \* Interfaces whose registerInterface threw "already exists"
  accepted           \* Interfaces the registry has ever accepted

regVars == << m_registry, m_registryMutex, ifaceState, m_name, held, rpc, caller,
              nameArg, ifArg, found, raced, result, terminated,
              obtained, builtBy, regOk, regDup, accepted >>

VARIABLES
  \* ---- one Interface and its ConnectionSubmissions (Interface.cpp 83-173) ----
  ifaceAlive,        \* the Interface has not been destroyed
  m_submissions,     \* LinkedList of queued submissions, first node first
  m_mutex,           \* Interface::m_mutex: owning thread
  subState,          \* submission -> "unused" | "created"
  m_socket,          \* submission -> ConnectionSubmission::m_socket
  m_valid,           \* submission -> ConnectionSubmission::m_valid
  subMutex,          \* submission -> owner of ConnectionSubmission::m_mutex
  nPipes,            \* Pipes created so far
  tpc,               \* thread -> position in the transport code
  top,               \* thread -> the function it called
  waitingHandle,     \* thread -> argument of accept
  sub,               \* thread -> local `submission`
  srv,               \* thread -> local `serverSocket`
  mySub,             \* thread -> the Submission its last connect returned
  tres,              \* thread -> outcome of its last completed call
  \* history
  connOrder,         \* submissions in the order of pushBack
  accOrder,          \* submissions in the order of popFront
  acceptLog,         \* server sockets in the order of popFront
  connectsThenAccepts, \* so far: only connect() calls, then only accept(true) calls
  nbOutcomes,        \* what getSocketNonBlocking returned, with the case it was in
  notified,          \* notifyAcceptors has been called
  pendingAtDestroy   \* submissions queued when the Interface was destroyed

trVars == << ifaceAlive, m_submissions, m_mutex, subState, m_socket, m_valid,
             subMutex, nPipes, tpc, top, waitingHandle, sub, srv, mySub, tres,
             connOrder, accOrder, acceptLog, connectsThenAccepts, nbOutcomes,
             notified, pendingAtDestroy >>

VARIABLES
  \* ---- HTTP processing (HttpProcessor, HttpConnectionHandler::Task) ----
  cur,               \* the exchange that arrives on the connection: what the header
                     \* reader, the router, the interceptors and the endpoint do with it
  \* the synchronous executor, HttpConnectionHandler::Task::run
  syncPc,            \* "read" (top of the do loop) | "sent" | "done"
  syncSeen,          \* the exchange cur has been processed by processRequest
  connectionState,   \* v_int32 connectionState of Task::run
  response,          \* std::shared_ptr<Response> response of Task::run
  syncPrevState,     \* connectionState before the last processRequest call
  syncCalls,         \* what processRequest invoked for the current exchange, in order
  syncSent,          \* responses written for the current exchange
  syncUpgrades,      \* handleConnection calls of upgrade handlers
  \* the asynchronous state machine, HttpProcessor::Coroutine
  asyncPc,           \* the member function the coroutine continues with
  asyncSeen,         \* the exchange cur has been read by act()
  m_currentRoute,    \* whether the route is set
  m_currentRequest,
  m_currentResponse,
  m_connectionState,
  asyncError,        \* the Error handed to handleError
  asyncResult,       \* the Response handed to onResponse
  asyncCalls,        \* what the coroutine invoked for the current exchange, in order
  asyncSent,         \* responses sent for the current exchange
  asyncUpgrades      \* handleConnection calls of upgrade handlers

syncVars == << syncPc, syncSeen, connectionState, response, syncPrevState, syncCalls,
               syncSent, syncUpgrades >>

asyncVars == << asyncPc, asyncSeen, m_currentRoute, m_currentRequest, m_currentResponse,
                m_connectionState, asyncError, asyncResult, asyncCalls, asyncSent,
                asyncUpgrades >>

httpVars == << cur, syncVars, asyncVars >>

vars == << regVars, trVars, httpVars >>

otherThanRegistry == << trVars, httpVars >>

otherThanTransport == << regVars, httpVars >>

otherThanHttp == << regVars, trVars >>

NoResult ==
  [op |-> "none", name |-> NoName, val |-> "none", obj |-> NoIface, raced |-> FALSE]

(***************************************************************************)
(* std::recursive_mutex                                                    *)
(***************************************************************************)
\* a lock that excludes nobody
CanLockUnguarded(mtx, t) == TRUE

\* lock(): the owner may lock again, anybody else waits until it is free
CanLock(mtx, t) == mtx.owner \in {NoThread, t}

Locked(mtx, t) == [owner |-> t, depth |-> mtx.depth + 1]

Unlocked(mtx) ==
  IF mtx.depth <= 1
    THEN [owner |-> NoThread, depth |-> 0]
    ELSE [owner |-> mtx.owner, depth |-> mtx.depth - 1]

(***************************************************************************)
(* std::unordered_map<String, weak_ptr<Interface>>                         *)
(***************************************************************************)
\* a lookup that misses every key
RegistryFindNothing(reg, n) == FALSE

\* m_registry.find(name) != m_registry.end()
RegistryFind(reg, n) == reg[n] # NoIface

\* m_registry.insert({name, interface}): an existing key is left as it is
RegistryInsert(reg, n, i) ==
  IF reg[n] # NoIface THEN reg ELSE [reg EXCEPT ![n] = i]

\* m_registry.erase(it)
RegistryErase(reg, n) == [reg EXCEPT ![n] = NoIface]

\* weak_ptr::lock(): the object while a strong reference is left, else null
WeakLock(i) == IF i # NoIface /\ ifaceState[i] = "live" THEN i ELSE NoIface

\* strong references to Interface i
Holders(i) == {t \in Threads : held[t] = i}

UnusedIfaces == {i \in Ifaces : ifaceState[i] = "unused"}

\* operator new: the next object
NewIface == CHOOSE i \in UnusedIfaces : \A j \in UnusedIfaces : i <= j

\* threads that are in obtainShared and may still construct an Interface
Constructing == {t \in Threads : rpc[t] \in {"os_lock", "os_find", "os_new"}}

InitRegistry ==
  /\ m_registry = [n \in Names |-> NoIface]
  /\ m_registryMutex = [owner |-> NoThread, depth |-> 0]
  /\ ifaceState = [i \in Ifaces |-> "unused"]
  /\ m_name = [i \in Ifaces |-> NoName]
  /\ held = [t \in Threads |-> NoIface]
  /\ rpc = [t \in Threads |-> "idle"]
  /\ caller = [t \in Threads |-> "none"]
  /\ nameArg = [t \in Threads |-> NoName]
  /\ ifArg = [t \in Threads |-> NoIface]
  /\ found = [t \in Threads |-> FALSE]
  /\ raced = [t \in Threads |-> FALSE]
  /\ result = [t \in Threads |-> NoResult]
  /\ terminated = FALSE
  /\ obtained = [n \in Names |-> {}]
  /\ builtBy = [n \in Names |-> {}]
  /\ regOk = [n \in Names |-> {}]
  /\ regDup = [n \in Names |-> {}]
  /\ accepted = {}


\* the history of a name starts again when its entry is erased
Forget(h, n) == [h EXCEPT ![n] = {}]

\* a thread is back in its caller's code, its call's locals are gone
Idle(t) ==
  /\ rpc' = [rpc EXCEPT ![t] = "idle"]
  /\ caller' = [caller EXCEPT ![t] = "none"]
  /\ nameArg' = [nameArg EXCEPT ![t] = NoName]
  /\ ifArg' = [ifArg EXCEPT ![t] = NoIface]
  /\ found' = [found EXCEPT ![t] = FALSE]
  /\ raced' = [raced EXCEPT ![t] = FALSE]

\* threads other than t that have called a registry function and wait for the mutex
Waiting(t) ==
  {u \in Threads \ {t} : rpc[u] \in {"os_lock", "ri_lock", "ui_lock", "dt_lock"}}

\* t takes the mutex while others wait for it: their calls overlap
Raced(t) ==
  [u \in Threads |->
     IF Waiting(t) # {} /\ u \in Waiting(t) \cup {t} THEN TRUE ELSE raced[u]]

Goto(t, label) == rpc' = [rpc EXCEPT ![t] = label]

UNCHANGED_history == UNCHANGED << obtained, builtBy, regOk, regDup, accepted >>

(***************************************************************************)
(* Interface::obtainShared(name), lines 68-81                              *)
(***************************************************************************)
CallObtainShared(t, n) ==
  /\ ~terminated /\ rpc[t] = "idle" /\ held[t] = NoIface
  /\ Cardinality(UnusedIfaces) > Cardinality(Constructing)
  /\ Goto(t, "os_lock")
  /\ caller' = [caller EXCEPT ![t] = "client"]
  /\ nameArg' = [nameArg EXCEPT ![t] = n]
  /\ result' = [result EXCEPT ![t] = NoResult]
  /\ UNCHANGED << m_registry, m_registryMutex, ifaceState, m_name, held, ifArg,
                  found, raced, terminated >>
  /\ UNCHANGED_history
  /\ UNCHANGED otherThanRegistry

\* line 70: std::lock_guard lock(m_registryMutex)
ObtainSharedLock(t) ==
  /\ ~terminated /\ rpc[t] = "os_lock"
  /\ CanLock(m_registryMutex, t)
  /\ m_registryMutex' = Locked(m_registryMutex, t)
  /\ raced' = Raced(t)
  /\ Goto(t, "os_find")
  /\ UNCHANGED << m_registry, ifaceState, m_name, held, caller, nameArg, ifArg,
                  found, result, terminated >>
  /\ UNCHANGED_history
  /\ UNCHANGED otherThanRegistry

\* lines 72-75: find; when found, return it->second.lock()
ObtainSharedFind(t) ==
  /\ ~terminated /\ rpc[t] = "os_find"
  /\ IF RegistryFind(m_registry, nameArg[t])
       THEN LET i == WeakLock(m_registry[nameArg[t]]) IN
            /\ held' = [held EXCEPT ![t] = i]
            /\ result' = [result EXCEPT ![t] =
                 [op |-> "obtainShared", name |-> nameArg[t], val |-> "returned", obj |-> i,
                  raced |-> raced[t]]]
            /\ obtained' = [obtained EXCEPT ![nameArg[t]] =
                 IF i = NoIface THEN @ ELSE @ \cup {i}]
            /\ m_registryMutex' = Unlocked(m_registryMutex)
            /\ Idle(t)
       ELSE /\ Goto(t, "os_new")
            /\ UNCHANGED << held, result, obtained, m_registryMutex, caller, nameArg,
                            ifArg, found, raced >>
  /\ UNCHANGED << m_registry, ifaceState, m_name, terminated,
                  builtBy, regOk, regDup, accepted >>
  /\ UNCHANGED otherThanRegistry

\* lines 77-78: interface(new Interface(name)); call registerInterface(interface)
ObtainSharedNew(t) ==
  /\ ~terminated /\ rpc[t] = "os_new"
  /\ UnusedIfaces # {}
  /\ LET i == NewIface IN
     /\ ifaceState' = [ifaceState EXCEPT ![i] = "live"]
     /\ m_name' = [m_name EXCEPT ![i] = nameArg[t]]
     /\ held' = [held EXCEPT ![t] = i]
     /\ ifArg' = [ifArg EXCEPT ![t] = i]
     /\ builtBy' = [builtBy EXCEPT ![nameArg[t]] = @ \cup {i}]
  /\ Goto(t, "ri_lock")
  /\ caller' = [caller EXCEPT ![t] = "obtainShared"]
  /\ UNCHANGED << m_registry, m_registryMutex, nameArg, found, raced, result, terminated,
                  obtained, regOk, regDup, accepted >>
  /\ UNCHANGED otherThanRegistry

\* lines 79-81: return interface; the lock_guard of line 70 unlocks
ObtainSharedReturn(t) ==
  /\ ~terminated /\ rpc[t] = "os_ret"
  /\ result' = [result EXCEPT ![t] =
       [op |-> "obtainShared", name |-> nameArg[t], val |-> "returned", obj |-> held[t],
        raced |-> raced[t]]]
  /\ obtained' = [obtained EXCEPT ![nameArg[t]] = @ \cup {held[t]}]
  /\ m_registryMutex' = Unlocked(m_registryMutex)
  /\ Idle(t)
  /\ UNCHANGED << m_registry, ifaceState, m_name, held, terminated,
                  builtBy, regOk, regDup, accepted >>
  /\ UNCHANGED otherThanRegistry

(***************************************************************************)
(* Interface::Interface(name), lines 60-62: the constructor only stores    *)
(* the name; a client that constructs an Interface holds it unregistered.  *)
(***************************************************************************)
NewInterface(t, n) ==
  /\ ~terminated /\ rpc[t] = "idle" /\ held[t] = NoIface
  /\ Cardinality(UnusedIfaces) > Cardinality(Constructing)
  /\ LET i == NewIface IN
     /\ ifaceState' = [ifaceState EXCEPT ![i] = "live"]
     /\ m_name' = [m_name EXCEPT ![i] = n]
     /\ held' = [held EXCEPT ![t] = i]
  /\ result' = [result EXCEPT ![t] = NoResult]
  /\ UNCHANGED << m_registry, m_registryMutex, rpc, caller, nameArg, ifArg, found, raced,
                  terminated >>
  /\ UNCHANGED_history
  /\ UNCHANGED otherThanRegistry

(***************************************************************************)
(* Interface::registerInterface(interface), lines 32-44                    *)
(***************************************************************************)
CallRegisterInterface(t) ==
  /\ ~terminated /\ rpc[t] = "idle" /\ held[t] # NoIface
  /\ Goto(t, "ri_lock")
  /\ caller' = [caller EXCEPT ![t] = "client"]
  /\ ifArg' = [ifArg EXCEPT ![t] = held[t]]
  /\ nameArg' = [nameArg EXCEPT ![t] = m_name[held[t]]]
  /\ result' = [result EXCEPT ![t] = NoResult]
  /\ UNCHANGED << m_registry, m_registryMutex, ifaceState, m_name, held, found, raced,
                  terminated >>
  /\ UNCHANGED_history
  /\ UNCHANGED otherThanRegistry

\* line 34
RegisterLock(t) ==
  /\ ~terminated /\ rpc[t] = "ri_lock"
  /\ CanLock(m_registryMutex, t)
  /\ m_registryMutex' = Locked(m_registryMutex, t)
  /\ raced' = Raced(t)
  /\ Goto(t, "ri_find")
  /\ UNCHANGED << m_registry, ifaceState, m_name, held, caller, nameArg, ifArg,
                  found, result, terminated >>
  /\ UNCHANGED_history
  /\ UNCHANGED otherThanRegistry

\* line 36
RegisterFind(t) ==
  /\ ~terminated /\ rpc[t] = "ri_find"
  /\ found' = [found EXCEPT ![t] = RegistryFind(m_registry, m_name[ifArg[t]])]
  /\ Goto(t, "ri_insert")
  /\ UNCHANGED << m_registry, m_registryMutex, ifaceState, m_name, held, caller,
                  nameArg, ifArg, raced, result, terminated >>
  /\ UNCHANGED_history
  /\ UNCHANGED otherThanRegistry

\* lines 37-44: throw when found, else insert; the lock_guard unlocks either way.
\* An exception that leaves obtainShared destroys its local shared_ptr, the only
\* reference to the new Interface, so ~Interface runs during the unwinding.
RegisterInsert(t) ==
  /\ ~terminated /\ rpc[t] = "ri_insert"
  /\ m_registryMutex' = Unlocked(m_registryMutex)
  /\ IF found[t]
       THEN /\ regDup' = [regDup EXCEPT ![nameArg[t]] = @ \cup {ifArg[t]}]
            /\ UNCHANGED << m_registry, regOk, accepted >>
            /\ IF caller[t] = "client"
                 THEN /\ result' = [result EXCEPT ![t] =
                           [op |-> "registerInterface", name |-> nameArg[t],
                            val |-> "already exists", obj |-> ifArg[t], raced |-> raced[t]]]
                      /\ Idle(t)
                      /\ UNCHANGED << held, ifaceState >>
                 ELSE /\ held' = [held EXCEPT ![t] = NoIface]
                      /\ ifaceState' = [ifaceState EXCEPT ![ifArg[t]] = "expired"]
                      /\ Goto(t, "dt_lock")
                      /\ caller' = [caller EXCEPT ![t] = "unwind"]
                      /\ UNCHANGED << result, nameArg, ifArg, found, raced >>
       ELSE /\ m_registry' = RegistryInsert(m_registry, nameArg[t], ifArg[t])
            /\ regOk' = [regOk EXCEPT ![nameArg[t]] = @ \cup {ifArg[t]}]
            /\ accepted' = accepted \cup {ifArg[t]}
            /\ UNCHANGED << regDup, held, ifaceState >>
            /\ IF caller[t] = "client"
                 THEN /\ result' = [result EXCEPT ![t] =
                           [op |-> "registerInterface", name |-> nameArg[t],
                            val |-> "registered", obj |-> ifArg[t], raced |-> raced[t]]]
                      /\ Idle(t)
                 ELSE /\ Goto(t, "os_ret")
                      /\ UNCHANGED << result, caller, nameArg, ifArg, found, raced >>
  /\ UNCHANGED << m_name, terminated, obtained, builtBy >>
  /\ UNCHANGED otherThanRegistry

(***************************************************************************)
(* Interface::unregisterInterface(name), lines 46-58, called by a client   *)
(***************************************************************************)
CallUnregisterInterface(t, n) ==
  /\ ~terminated /\ rpc[t] = "idle"
  /\ Goto(t, "ui_lock")
  /\ caller' = [caller EXCEPT ![t] = "client"]
  /\ nameArg' = [nameArg EXCEPT ![t] = n]
  /\ result' = [result EXCEPT ![t] = NoResult]
  /\ UNCHANGED << m_registry, m_registryMutex, ifaceState, m_name, held, ifArg,
                  found, raced, terminated >>
  /\ UNCHANGED_history
  /\ UNCHANGED otherThanRegistry

\* line 48
UnregisterLock(t) ==
  /\ ~terminated /\ rpc[t] \in {"ui_lock", "dt_lock"}
  /\ CanLock(m_registryMutex, t)
  /\ m_registryMutex' = Locked(m_registryMutex, t)
  /\ raced' = Raced(t)
  /\ Goto(t, IF rpc[t] = "ui_lock" THEN "ui_find" ELSE "dt_find")
  /\ UNCHANGED << m_registry, ifaceState, m_name, held, caller, nameArg, ifArg,
                  found, result, terminated >>
  /\ UNCHANGED_history
  /\ UNCHANGED otherThanRegistry

\* line 50
UnregisterFind(t) ==
  /\ ~terminated /\ rpc[t] \in {"ui_find", "dt_find"}
  /\ found' = [found EXCEPT ![t] = RegistryFind(m_registry, nameArg[t])]
  /\ Goto(t, IF rpc[t] = "ui_find" THEN "ui_erase" ELSE "dt_erase")
  /\ UNCHANGED << m_registry, m_registryMutex, ifaceState, m_name, held, caller,
                  nameArg, ifArg, raced, result, terminated >>
  /\ UNCHANGED_history
  /\ UNCHANGED otherThanRegistry

\* lines 51-58 for a client's call: throw when not found, else erase
UnregisterErase(t) ==
  /\ ~terminated /\ rpc[t] = "ui_erase"
  /\ m_registryMutex' = Unlocked(m_registryMutex)
  /\ IF found[t]
       THEN /\ m_registry' = RegistryErase(m_registry, nameArg[t])
            /\ obtained' = Forget(obtained, nameArg[t])
            /\ builtBy' = Forget(builtBy, nameArg[t])
            /\ regOk' = Forget(regOk, nameArg[t])
            /\ regDup' = Forget(regDup, nameArg[t])
            /\ result' = [result EXCEPT ![t] =
                 [op |-> "unregisterInterface", name |-> nameArg[t],
                  val |-> "erased", obj |-> NoIface, raced |-> raced[t]]]
       ELSE /\ result' = [result EXCEPT ![t] =
                 [op |-> "unregisterInterface", name |-> nameArg[t],
                  val |-> "not found", obj |-> NoIface, raced |-> raced[t]]]
            /\ UNCHANGED << m_registry, obtained, builtBy, regOk, regDup >>
  /\ Idle(t)
  /\ UNCHANGED << ifaceState, m_name, held, terminated, accepted >>
  /\ UNCHANGED otherThanRegistry

(***************************************************************************)
(* A thread drops its shared_ptr; the last one runs Interface::~Interface, *)
(* lines 64-66: unregisterInterface(getName()).                            *)
(***************************************************************************)
Release(t) ==
  /\ ~terminated /\ rpc[t] = "idle" /\ held[t] # NoIface
  /\ held' = [held EXCEPT ![t] = NoIface]
  /\ result' = [result EXCEPT ![t] = NoResult]
  /\ IF Holders(held[t]) = {t}
       THEN /\ ifaceState' = [ifaceState EXCEPT ![held[t]] = "expired"]
            /\ Goto(t, "dt_lock")
            /\ caller' = [caller EXCEPT ![t] = "client"]
            /\ ifArg' = [ifArg EXCEPT ![t] = held[t]]
            /\ nameArg' = [nameArg EXCEPT ![t] = m_name[held[t]]]
       ELSE UNCHANGED << ifaceState, rpc, caller, ifArg, nameArg >>
  /\ UNCHANGED << m_registry, m_registryMutex, m_name, found, raced, terminated >>
  /\ UNCHANGED_history
  /\ UNCHANGED otherThanRegistry

\* lines 51-58 inside ~Interface: an exception that leaves the destructor ends
\* the process (std::terminate); else the entry of the name is erased, whichever
\* Interface it refers to, and the object is gone.
DestructorErase(t) ==
  /\ ~terminated /\ rpc[t] = "dt_erase"
  /\ IF found[t]
       THEN /\ m_registry' = RegistryErase(m_registry, nameArg[t])
            /\ obtained' = Forget(obtained, nameArg[t])
            /\ builtBy' = Forget(builtBy, nameArg[t])
            /\ regOk' = Forget(regOk, nameArg[t])
            /\ regDup' = Forget(regDup, nameArg[t])
            /\ ifaceState' = [ifaceState EXCEPT ![ifArg[t]] = "destroyed"]
            /\ IF caller[t] = "client"
                 THEN /\ m_registryMutex' = Unlocked(m_registryMutex)
                      /\ UNCHANGED result
                 ELSE /\ m_registryMutex' = Unlocked(Unlocked(m_registryMutex))
                      /\ result' = [result EXCEPT ![t] =
                           [op |-> "obtainShared", name |-> nameArg[t],
                            val |-> "already exists", obj |-> NoIface, raced |-> raced[t]]]
            /\ Idle(t)
            /\ UNCHANGED terminated
       ELSE /\ terminated' = TRUE
            /\ UNCHANGED << m_registry, m_registryMutex, ifaceState, rpc, caller,
                            nameArg, ifArg, found, raced, result,
                            obtained, builtBy, regOk, regDup >>
  /\ UNCHANGED << m_name, held, accepted >>
  /\ UNCHANGED otherThanRegistry

NextRegistry ==
  \E t \in Threads :
    \/ \E n \in Names : CallObtainShared(t, n)
    \/ ObtainSharedLock(t)
    \/ ObtainSharedFind(t)
    \/ ObtainSharedNew(t)
    \/ ObtainSharedReturn(t)
    \/ \E n \in Names : NewInterface(t, n)
    \/ CallRegisterInterface(t)
    \/ RegisterLock(t)
    \/ RegisterFind(t)
    \/ RegisterInsert(t)
    \/ \E n \in Names : CallUnregisterInterface(t, n)
    \/ UnregisterLock(t)
    \/ UnregisterFind(t)
    \/ UnregisterErase(t)
    \/ Release(t)
    \/ DestructorErase(t)

(***************************************************************************)
(* Properties of the registry                                              *)
(***************************************************************************)
ObtainSharedResult(t, n) ==
  /\ result[t].op = "obtainShared"
  /\ result[t].name = n
  /\ result[t].val = "returned"

\* C2: for every name, all obtainShared(name) calls made while the name's
\* registry entry stands (no erase of the name between them) return the same
\* Interface instance, obtainShared constructs at most one Interface for the
\* name, and the instance returned is the one whose registration succeeded,
\* the only one: in every interleaving of the calls.
C2_ObtainSharedSameInstanceOnce ==
  \A n \in Names :
    /\ Cardinality(obtained[n]) <= 1
    /\ Cardinality(builtBy[n]) <= 1
    /\ Cardinality(regOk[n]) <= 1
    /\ obtained[n] \subseteq regOk[n]
    /\ \A t, u \in Threads :
         ( /\ ObtainSharedResult(t, n) /\ ObtainSharedResult(u, n)
           /\ held[t] = result[t].obj /\ held[u] = result[u].obj
           /\ held[t] \in obtained[n] /\ held[u] \in obtained[n] )
         => result[t].obj = result[u].obj

\* two overlapping obtainShared calls for one name have both returned the one
\* Interface that obtainShared constructed and registered
C2_Witness ==
  \E n \in Names : \E t, u \in Threads :
    /\ t # u
    /\ ObtainSharedResult(t, n) /\ ObtainSharedResult(u, n)
    /\ result[t].raced /\ result[u].raced
    /\ result[t].obj # NoIface
    /\ result[t].obj = result[u].obj
    /\ builtBy[n] = {result[t].obj}
    /\ regOk[n] = {result[t].obj}

\* C3: there are never two live Interfaces with the same name (stated for the
\* Interfaces the registry has accepted).
C3_OneLiveInterfacePerName ==
  \A i, j \in accepted :
    (i # j /\ ifaceState[i] = "live" /\ ifaceState[j] = "live")
      => m_name[i] # m_name[j]

\* C4: of the registerInterface calls for one name made while no entry of the
\* name is erased, starting with the name absent, exactly one succeeds and
\* every other one fails with the duplicate-name error.
C4_OneRegistrationSucceeds ==
  \A n \in Names :
    /\ (regOk[n] \cup regDup[n] # {}) => Cardinality(regOk[n]) = 1
    /\ regOk[n] # {} => m_registry[n] \in regOk[n]

\* two overlapping registerInterface calls with two Interfaces of one name:
\* one has registered, the other got the duplicate-name error
C4_Witness ==
  \E n \in Names : \E t, u \in Threads :
    /\ t # u
    /\ result[t].op = "registerInterface" /\ result[u].op = "registerInterface"
    /\ result[t].name = n /\ result[u].name = n
    /\ result[t].raced /\ result[u].raced
    /\ result[t].obj # result[u].obj
    /\ result[t].val = "registered"
    /\ result[u].val = "already exists"
    /\ regOk[n] = {result[t].obj}
    /\ regDup[n] = {result[u].obj}

\* C5: obtainShared(name) always returns a live (non-null) Interface.
C5_ObtainSharedNeverNull ==
  \A t \in Threads :
    (result[t].op = "obtainShared" /\ result[t].val = "returned")
      => result[t].obj # NoIface

\* C19: a registry operation that fails leaves the registry as it was: a step
\* in which registerInterface fails with "already exists" or
\* unregisterInterface with "not found" does not change the registry, and the
\* step that ends the destruction of an Interface whose registration was
\* rejected (and that the registry never accepted) does not change it either,
\* so that the entry of the Interface that holds the name stays in place.
C19_FailedOperationLeavesRegistry ==
  [][ /\ \A t \in Threads :
           (result'[t] # result[t] /\ result'[t].val \in {"already exists", "not found"})
             => m_registry' = m_registry
      /\ \A i \in Ifaces :
           ( /\ m_name[i] \in Names
             /\ i \in regDup[m_name[i]]
             /\ i \notin accepted
             /\ ifaceState[i] # "destroyed"
             /\ ifaceState'[i] = "destroyed" )
             => m_registry' = m_registry
    ]_vars

(***************************************************************************)
(*                                                                         *)
(* The virtual Interface: submission queue and ConnectionSubmission        *)
(*                                                                         *)
(***************************************************************************)
\* Socket::createShared(in, out)
Socket(in, out) == [in |-> in, out |-> out]

\* a null shared_ptr<Socket>
NoSocket == Socket(NoPipe, NoPipe)

\* ConnectionSubmission as constructed (Interface.hpp): no socket, valid
NewSubmission == [socket |-> NoSocket, valid |-> TRUE]

NoTres == [op |-> "none", sub |-> NoSub, sock |-> NoSocket, why |-> "none"]

\* m_submissions.pushBack(submission)
PushBack(q, s) == Append(q, s)

\* m_submissions.getFirstNode(), by the data it holds (NoSub: nullptr)
FirstNode(q) == IF q = << >> THEN NoSub ELSE Head(q)

\* a pop that leaves the node in the list
PopFrontKeep(q) == [data |-> Head(q), rest |-> q]

\* a pop that takes the last node
PopBack(q) == [data |-> q[Len(q)], rest |-> SubSeq(q, 1, Len(q) - 1)]

\* m_submissions.popFront(): the data of the first node, and the list left
PopFront(q) == [data |-> Head(q), rest |-> Tail(q)]

\* std::mutex can be locked / std::try_to_lock owns the lock
MutexFree(mtx) == mtx = NoThread

UnusedSubs == {x \in Subs : subState[x] = "unused"}

\* std::make_shared<ConnectionSubmission>(): the next object
NewSub == CHOOSE x \in UnusedSubs : \A y \in UnusedSubs : x <= y

\* threads blocked in m_condition.wait of the Interface
AcceptWaiters == {u \in TThreads : tpc[u] = "ac_wait"}

\* threads blocked in m_condition.wait of submission x
SocketWaiters(x) == {u \in TThreads : tpc[u] = "gs_wait" /\ sub[u] = x}

\* threads inside a member function of the Interface
InInterface ==
  {u \in TThreads : tpc[u] \in {"co_lock", "co_push", "co_notify", "ac_lock", "ac_check",
                                "ac_wait", "an_check", "ac_pop", "ss_lock", "ss_set",
                                "ss_notify", "ac_ret"}}

InitTransport ==
  /\ ifaceAlive = TRUE
  /\ m_submissions = << >>
  /\ m_mutex = NoThread
  /\ subState = [x \in Subs |-> "unused"]
  /\ m_socket = [x \in Subs |-> NoSocket]
  /\ m_valid = [x \in Subs |-> TRUE]
  /\ subMutex = [x \in Subs |-> NoThread]
  /\ nPipes = 0
  /\ tpc = [t \in TThreads |-> "idle"]
  /\ top = [t \in TThreads |-> "none"]
  /\ waitingHandle = [t \in TThreads |-> FALSE]
  /\ sub = [t \in TThreads |-> NoSub]
  /\ srv = [t \in TThreads |-> NoSocket]
  /\ mySub = [t \in TThreads |-> NoSub]
  /\ tres = [t \in TThreads |-> NoTres]
  /\ connOrder = << >>
  /\ accOrder = << >>
  /\ acceptLog = << >>
  /\ connectsThenAccepts = TRUE
  /\ nbOutcomes = {}
  /\ notified = FALSE
  /\ pendingAtDestroy = {}

TGoto(t, label) == tpc' = [tpc EXCEPT ![t] = label]

\* the call of thread t returns: its locals are gone
TReturn(t, r) ==
  /\ tres' = [tres EXCEPT ![t] = r]
  /\ top' = [top EXCEPT ![t] = "none"]
  /\ waitingHandle' = [waitingHandle EXCEPT ![t] = FALSE]
  /\ sub' = [sub EXCEPT ![t] = NoSub]
  /\ srv' = [srv EXCEPT ![t] = NoSocket]

UNCHANGED_locals == UNCHANGED << top, waitingHandle, sub, srv, tres >>

UNCHANGED_subs == UNCHANGED << subState, m_socket, m_valid, subMutex >>

UNCHANGED_trHistory ==
  UNCHANGED << connOrder, accOrder, acceptLog, connectsThenAccepts, nbOutcomes,
               notified, pendingAtDestroy >>

(***************************************************************************)
(* Interface::connect(), lines 127-135                                     *)
(***************************************************************************)
\* line 128: submission = std::make_shared<ConnectionSubmission>()
CallConnect(t) ==
  /\ tpc[t] = "idle" /\ ifaceAlive /\ UnusedSubs # {}
  /\ LET x == NewSub IN
     /\ subState' = [subState EXCEPT ![x] = "created"]
     /\ m_socket' = [m_socket EXCEPT ![x] = NewSubmission.socket]
     /\ m_valid' = [m_valid EXCEPT ![x] = NewSubmission.valid]
     /\ sub' = [sub EXCEPT ![t] = x]
  /\ top' = [top EXCEPT ![t] = "connect"]
  /\ tres' = [tres EXCEPT ![t] = NoTres]
  /\ TGoto(t, "co_lock")
  /\ UNCHANGED << ifaceAlive, m_submissions, m_mutex, subMutex, nPipes,
                  waitingHandle, srv, mySub >>
  /\ UNCHANGED_trHistory
  /\ UNCHANGED otherThanTransport

\* line 130: std::lock_guard lock(m_mutex)
ConnectLock(t) ==
  /\ tpc[t] = "co_lock"
  /\ MutexFree(m_mutex)
  /\ m_mutex' = t
  /\ TGoto(t, "co_push")
  /\ UNCHANGED << ifaceAlive, m_submissions, nPipes, mySub >>
  /\ UNCHANGED_locals /\ UNCHANGED_subs /\ UNCHANGED_trHistory
  /\ UNCHANGED otherThanTransport

\* lines 131-132 (and 143-145): pushBack, then the lock goes out of scope
ConnectPush(t) ==
  /\ tpc[t] = "co_push"
  /\ m_submissions' = PushBack(m_submissions, sub[t])
  /\ m_mutex' = NoThread
  /\ connOrder' = Append(connOrder, sub[t])
  /\ connectsThenAccepts' =
       (connectsThenAccepts /\ top[t] = "connect" /\ accOrder = << >>)
  /\ TGoto(t, "co_notify")
  /\ UNCHANGED << ifaceAlive, nPipes, mySub, accOrder, acceptLog, nbOutcomes,
                  notified, pendingAtDestroy >>
  /\ UNCHANGED_locals /\ UNCHANGED_subs
  /\ UNCHANGED otherThanTransport

\* a connect that returns the submission without notifying anyone
ConnectWithoutNotify(t) ==
  /\ tpc[t] = "co_notify"
  /\ mySub' = [mySub EXCEPT ![t] = sub[t]]
  /\ TReturn(t, [op |-> top[t], sub |-> sub[t], sock |-> NoSocket, why |-> "submitted"])
  /\ TGoto(t, "idle")
  /\ UNCHANGED << ifaceAlive, m_submissions, m_mutex, nPipes >>
  /\ UNCHANGED_subs /\ UNCHANGED_trHistory
  /\ UNCHANGED otherThanTransport

\* lines 133-134 (and 146-149): m_condition.notify_one(); return submission
ConnectNotify(t) ==
  /\ tpc[t] = "co_notify"
  /\ mySub' = [mySub EXCEPT ![t] = sub[t]]
  /\ TReturn(t, [op |-> top[t], sub |-> sub[t], sock |-> NoSocket, why |-> "submitted"])
  /\ IF AcceptWaiters = {}
       THEN TGoto(t, "idle")
       ELSE \E w \in AcceptWaiters : tpc' = [tpc EXCEPT ![t] = "idle", ![w] = "ac_lock"]
  /\ UNCHANGED << ifaceAlive, m_submissions, m_mutex, nPipes >>
  /\ UNCHANGED_subs /\ UNCHANGED_trHistory
  /\ UNCHANGED otherThanTransport

(***************************************************************************)
(* Interface::connectNonBlocking(), lines 137-150                          *)
(***************************************************************************)
\* lines 138-142: try_to_lock; the submission is made only under the lock
CallConnectNonBlocking(t) ==
  /\ tpc[t] = "idle" /\ ifaceAlive /\ UnusedSubs # {}
  /\ IF MutexFree(m_mutex)
       THEN LET x == NewSub IN
            /\ m_mutex' = t
            /\ subState' = [subState EXCEPT ![x] = "created"]
            /\ m_socket' = [m_socket EXCEPT ![x] = NewSubmission.socket]
            /\ m_valid' = [m_valid EXCEPT ![x] = NewSubmission.valid]
            /\ sub' = [sub EXCEPT ![t] = x]
            /\ top' = [top EXCEPT ![t] = "connectNonBlocking"]
            /\ tres' = [tres EXCEPT ![t] = NoTres]
            /\ TGoto(t, "co_push")
            /\ UNCHANGED << waitingHandle, srv >>
       ELSE /\ TReturn(t, [op |-> "connectNonBlocking", sub |-> NoSub,
                           sock |-> NoSocket, why |-> "contended"])
            /\ UNCHANGED << m_mutex, subState, m_socket, m_valid, tpc >>
  /\ UNCHANGED << ifaceAlive, m_submissions, subMutex, nPipes, mySub >>
  /\ UNCHANGED_trHistory
  /\ UNCHANGED otherThanTransport

(***************************************************************************)
(* Interface::accept(waitingHandle), lines 152-161                         *)
(***************************************************************************)
CallAccept(t, w) ==
  /\ tpc[t] = "idle" /\ ifaceAlive
  /\ top' = [top EXCEPT ![t] = "accept"]
  /\ waitingHandle' = [waitingHandle EXCEPT ![t] = w]
  /\ tres' = [tres EXCEPT ![t] = NoTres]
  /\ TGoto(t, "ac_lock")
  /\ UNCHANGED << ifaceAlive, m_submissions, m_mutex, nPipes, sub, srv, mySub >>
  /\ UNCHANGED_subs /\ UNCHANGED_trHistory
  /\ UNCHANGED otherThanTransport

\* line 153, and the re-lock when m_condition.wait returns
AcceptLock(t) ==
  /\ tpc[t] = "ac_lock"
  /\ MutexFree(m_mutex)
  /\ m_mutex' = t
  /\ TGoto(t, "ac_check")
  /\ UNCHANGED << ifaceAlive, m_submissions, nPipes, mySub >>
  /\ UNCHANGED_locals /\ UNCHANGED_subs /\ UNCHANGED_trHistory
  /\ UNCHANGED otherThanTransport

\* an accept that keeps the Interface lock while it waits for a submission
AcceptCheckKeepLock(t) ==
  /\ tpc[t] = "ac_check"
  /\ IF waitingHandle[t] /\ FirstNode(m_submissions) = NoSub
       THEN /\ TGoto(t, "ac_wait")
            /\ UNCHANGED m_mutex
            /\ UNCHANGED_locals
       ELSE IF ~waitingHandle[t]
         THEN /\ m_mutex' = NoThread
              /\ TReturn(t, [op |-> "accept", sub |-> NoSub, sock |-> NoSocket,
                             why |-> "not waiting"])
              /\ TGoto(t, "idle")
         ELSE /\ TGoto(t, "ac_pop")
              /\ UNCHANGED m_mutex
              /\ UNCHANGED_locals
  /\ UNCHANGED << ifaceAlive, m_submissions, nPipes, mySub >>
  /\ UNCHANGED_subs /\ UNCHANGED_trHistory
  /\ UNCHANGED otherThanTransport

\* lines 154-159: wait while the list is empty; null when not waiting
AcceptCheck(t) ==
  /\ tpc[t] = "ac_check"
  /\ IF waitingHandle[t] /\ FirstNode(m_submissions) = NoSub
       THEN /\ m_mutex' = NoThread
            /\ TGoto(t, "ac_wait")
            /\ UNCHANGED_locals
       ELSE IF ~waitingHandle[t]
         THEN /\ m_mutex' = NoThread
              /\ TReturn(t, [op |-> "accept", sub |-> NoSub, sock |-> NoSocket,
                             why |-> "not waiting"])
              /\ TGoto(t, "idle")
         ELSE /\ TGoto(t, "ac_pop")
              /\ UNCHANGED m_mutex
              /\ UNCHANGED_locals
  /\ UNCHANGED << ifaceAlive, m_submissions, nPipes, mySub >>
  /\ UNCHANGED_subs /\ UNCHANGED_trHistory
  /\ UNCHANGED otherThanTransport

\* m_condition.wait may return without a notification
AcceptSpuriousWakeup(t) ==
  /\ tpc[t] = "ac_wait"
  /\ TGoto(t, "ac_lock")
  /\ UNCHANGED << ifaceAlive, m_submissions, m_mutex, nPipes, mySub >>
  /\ UNCHANGED_locals /\ UNCHANGED_subs /\ UNCHANGED_trHistory
  /\ UNCHANGED otherThanTransport

\* lines 160 / 166 and 115-119: popFront, then acceptSubmission makes two
\* Pipes and the two Sockets over them
AcceptPop(t) ==
  /\ tpc[t] = "ac_pop"
  /\ IF m_submissions = << >>
       THEN /\ TGoto(t, "null dereference")
            /\ UNCHANGED << m_submissions, sub, srv, nPipes, accOrder, acceptLog,
                            connectsThenAccepts >>
       ELSE LET popped == PopFront(m_submissions)
                pipeIn == nPipes + 1
                pipeOut == nPipes + 2
            IN
            /\ m_submissions' = popped.rest
            /\ sub' = [sub EXCEPT ![t] = popped.data]
            /\ srv' = [srv EXCEPT ![t] = Socket(pipeIn, pipeOut)]
            /\ nPipes' = nPipes + 2
            /\ accOrder' = Append(accOrder, popped.data)
            /\ acceptLog' = Append(acceptLog, Socket(pipeIn, pipeOut))
            /\ connectsThenAccepts' = (connectsThenAccepts /\ top[t] = "accept")
            /\ TGoto(t, "ss_lock")
  /\ UNCHANGED << ifaceAlive, m_mutex, mySub, top, waitingHandle, tres,
                  connOrder, nbOutcomes, notified, pendingAtDestroy >>
  /\ UNCHANGED_subs
  /\ UNCHANGED otherThanTransport

\* line 85 (called at line 121): std::lock_guard lock(m_mutex) of the submission
SetSocketLock(t) ==
  /\ tpc[t] = "ss_lock"
  /\ MutexFree(subMutex[sub[t]])
  /\ subMutex' = [subMutex EXCEPT ![sub[t]] = t]
  /\ TGoto(t, "ss_set")
  /\ UNCHANGED << ifaceAlive, m_submissions, m_mutex, nPipes, mySub,
                  subState, m_socket, m_valid >>
  /\ UNCHANGED_locals /\ UNCHANGED_trHistory
  /\ UNCHANGED otherThanTransport

\* lines 86-87 with 119: m_socket = clientSocket (pipeOut, pipeIn); unlock
SetSocketStore(t) ==
  /\ tpc[t] = "ss_set"
  /\ m_socket' = [m_socket EXCEPT ![sub[t]] = Socket(srv[t].out, srv[t].in)]
  /\ subMutex' = [subMutex EXCEPT ![sub[t]] = NoThread]
  /\ TGoto(t, "ss_notify")
  /\ UNCHANGED << ifaceAlive, m_submissions, m_mutex, nPipes, mySub,
                  subState, m_valid >>
  /\ UNCHANGED_locals /\ UNCHANGED_trHistory
  /\ UNCHANGED otherThanTransport

\* line 88: m_condition.notify_one() of the submission
SetSocketNotify(t) ==
  /\ tpc[t] = "ss_notify"
  /\ IF SocketWaiters(sub[t]) = {}
       THEN TGoto(t, "ac_ret")
       ELSE \E w \in SocketWaiters(sub[t]) :
              tpc' = [tpc EXCEPT ![t] = "ac_ret", ![w] = "gs_lock"]
  /\ UNCHANGED << ifaceAlive, m_submissions, m_mutex, nPipes, mySub >>
  /\ UNCHANGED_locals /\ UNCHANGED_subs /\ UNCHANGED_trHistory
  /\ UNCHANGED otherThanTransport

\* lines 123 and 160-161 / 166: return serverSocket; the Interface lock is released
AcceptReturn(t) ==
  /\ tpc[t] = "ac_ret"
  /\ m_mutex' = NoThread
  /\ TReturn(t, [op |-> top[t], sub |-> sub[t], sock |-> srv[t], why |-> "accepted"])
  /\ TGoto(t, "idle")
  /\ UNCHANGED << ifaceAlive, m_submissions, nPipes, mySub >>
  /\ UNCHANGED_subs /\ UNCHANGED_trHistory
  /\ UNCHANGED otherThanTransport

(***************************************************************************)
(* Interface::acceptNonBlocking(), lines 163-169                           *)
(***************************************************************************)
\* line 164: try_to_lock
CallAcceptNonBlocking(t) ==
  /\ tpc[t] = "idle" /\ ifaceAlive
  /\ IF MutexFree(m_mutex)
       THEN /\ m_mutex' = t
            /\ top' = [top EXCEPT ![t] = "acceptNonBlocking"]
            /\ tres' = [tres EXCEPT ![t] = NoTres]
            /\ TGoto(t, "an_check")
            /\ UNCHANGED << waitingHandle, sub, srv >>
       ELSE /\ TReturn(t, [op |-> "acceptNonBlocking", sub |-> NoSub,
                           sock |-> NoSocket, why |-> "contended"])
            /\ UNCHANGED << m_mutex, tpc >>
  /\ UNCHANGED << ifaceAlive, m_submissions, nPipes, mySub >>
  /\ UNCHANGED_subs /\ UNCHANGED_trHistory
  /\ UNCHANGED otherThanTransport

\* lines 165-168
AcceptNonBlockingCheck(t) ==
  /\ tpc[t] = "an_check"
  /\ IF FirstNode(m_submissions) # NoSub
       THEN /\ TGoto(t, "ac_pop")
            /\ UNCHANGED m_mutex
            /\ UNCHANGED_locals
       ELSE /\ m_mutex' = NoThread
            /\ TReturn(t, [op |-> "acceptNonBlocking", sub |-> NoSub,
                           sock |-> NoSocket, why |-> "empty"])
            /\ TGoto(t, "idle")
  /\ UNCHANGED << ifaceAlive, m_submissions, nPipes, mySub >>
  /\ UNCHANGED_subs /\ UNCHANGED_trHistory
  /\ UNCHANGED otherThanTransport

(***************************************************************************)
(* Interface::notifyAcceptors(), lines 171-173                             *)
(***************************************************************************)
NotifyAcceptors(t) ==
  /\ tpc[t] = "idle" /\ ifaceAlive
  /\ tpc' = [u \in TThreads |-> IF u \in AcceptWaiters THEN "ac_lock" ELSE tpc[u]]
  /\ notified' = TRUE
  /\ tres' = [tres EXCEPT ![t] = NoTres]
  /\ UNCHANGED << ifaceAlive, m_submissions, m_mutex, nPipes, mySub,
                  top, waitingHandle, sub, srv,
                  connOrder, accOrder, acceptLog, connectsThenAccepts, nbOutcomes,
                  pendingAtDestroy >>
  /\ UNCHANGED_subs
  /\ UNCHANGED otherThanTransport

(***************************************************************************)
(* ConnectionSubmission::getSocket(), lines 91-97                          *)
(***************************************************************************)
CallGetSocket(t) ==
  /\ tpc[t] = "idle" /\ mySub[t] # NoSub
  /\ sub' = [sub EXCEPT ![t] = mySub[t]]
  /\ top' = [top EXCEPT ![t] = "getSocket"]
  /\ tres' = [tres EXCEPT ![t] = NoTres]
  /\ TGoto(t, "gs_lock")
  /\ UNCHANGED << ifaceAlive, m_submissions, m_mutex, nPipes, mySub,
                  waitingHandle, srv >>
  /\ UNCHANGED_subs /\ UNCHANGED_trHistory
  /\ UNCHANGED otherThanTransport

\* line 92, and the re-lock when m_condition.wait returns
GetSocketLock(t) ==
  /\ tpc[t] = "gs_lock"
  /\ MutexFree(subMutex[sub[t]])
  /\ subMutex' = [subMutex EXCEPT ![sub[t]] = t]
  /\ TGoto(t, "gs_check")
  /\ UNCHANGED << ifaceAlive, m_submissions, m_mutex, nPipes, mySub,
                  subState, m_socket, m_valid >>
  /\ UNCHANGED_locals /\ UNCHANGED_trHistory
  /\ UNCHANGED otherThanTransport

\* lines 93-96: wait while there is no socket and the submission is valid
GetSocketCheck(t) ==
  /\ tpc[t] = "gs_check"
  /\ subMutex' = [subMutex EXCEPT ![sub[t]] = NoThread]
  /\ IF m_socket[sub[t]] = NoSocket /\ m_valid[sub[t]]
       THEN /\ TGoto(t, "gs_wait")
            /\ UNCHANGED_locals
       ELSE /\ TReturn(t, [op |-> "getSocket", sub |-> sub[t],
                           sock |-> m_socket[sub[t]], why |-> "returned"])
            /\ TGoto(t, "idle")
  /\ UNCHANGED << ifaceAlive, m_submissions, m_mutex, nPipes, mySub,
                  subState, m_socket, m_valid >>
  /\ UNCHANGED_trHistory
  /\ UNCHANGED otherThanTransport

GetSocketSpuriousWakeup(t) ==
  /\ tpc[t] = "gs_wait"
  /\ TGoto(t, "gs_lock")
  /\ UNCHANGED << ifaceAlive, m_submissions, m_mutex, nPipes, mySub >>
  /\ UNCHANGED_locals /\ UNCHANGED_subs /\ UNCHANGED_trHistory
  /\ UNCHANGED otherThanTransport

(***************************************************************************)
(* ConnectionSubmission::getSocketNonBlocking(), lines 99-107              *)
(***************************************************************************)
CallGetSocketNonBlocking(t) ==
  /\ tpc[t] = "idle" /\ mySub[t] # NoSub
  /\ sub' = [sub EXCEPT ![t] = mySub[t]]
  /\ top' = [top EXCEPT ![t] = "getSocketNonBlocking"]
  /\ tres' = [tres EXCEPT ![t] = NoTres]
  /\ TGoto(t, "gn_try")
  /\ UNCHANGED << ifaceAlive, m_submissions, m_mutex, nPipes, mySub,
                  waitingHandle, srv >>
  /\ UNCHANGED_subs /\ UNCHANGED_trHistory
  /\ UNCHANGED otherThanTransport

\* a getSocketNonBlocking that takes the lock the blocking way
GetSocketNonBlockingTryBlocking(t) ==
  /\ tpc[t] = "gn_try"
  /\ MutexFree(subMutex[sub[t]])
  /\ IF m_valid[sub[t]]
       THEN /\ subMutex' = [subMutex EXCEPT ![sub[t]] = t]
            /\ TGoto(t, "gn_read")
            /\ UNCHANGED_locals
       ELSE /\ TReturn(t, [op |-> "getSocketNonBlocking", sub |-> sub[t],
                           sock |-> NoSocket, why |-> "invalid"])
            /\ TGoto(t, "idle")
            /\ UNCHANGED subMutex
  /\ UNCHANGED << ifaceAlive, m_submissions, m_mutex, nPipes, mySub,
                  subState, m_socket, m_valid >>
  /\ nbOutcomes' = IF tpc'[t] = "idle"
                     THEN nbOutcomes \cup {[why |-> tres'[t].why, sock |-> tres'[t].sock]}
                     ELSE nbOutcomes
  /\ UNCHANGED << connOrder, accOrder, acceptLog, connectsThenAccepts, notified,
                  pendingAtDestroy >>
  /\ UNCHANGED otherThanTransport

\* lines 100-102 and 105-106: when valid, try_to_lock; nullptr when the
\* submission is not valid or the lock is not owned
GetSocketNonBlockingTry(t) ==
  /\ tpc[t] = "gn_try"
  /\ IF m_valid[sub[t]]
       THEN IF MutexFree(subMutex[sub[t]])
         THEN /\ subMutex' = [subMutex EXCEPT ![sub[t]] = t]
              /\ TGoto(t, "gn_read")
              /\ UNCHANGED_locals
         ELSE /\ TReturn(t, [op |-> "getSocketNonBlocking", sub |-> sub[t],
                             sock |-> NoSocket, why |-> "contended"])
              /\ TGoto(t, "idle")
              /\ UNCHANGED subMutex
       ELSE /\ TReturn(t, [op |-> "getSocketNonBlocking", sub |-> sub[t],
                           sock |-> NoSocket, why |-> "invalid"])
            /\ TGoto(t, "idle")
            /\ UNCHANGED subMutex
  /\ UNCHANGED << ifaceAlive, m_submissions, m_mutex, nPipes, mySub,
                  subState, m_socket, m_valid >>
  /\ nbOutcomes' = IF tpc'[t] = "idle"
                     THEN nbOutcomes \cup {[why |-> tres'[t].why, sock |-> tres'[t].sock]}
                     ELSE nbOutcomes
  /\ UNCHANGED << connOrder, accOrder, acceptLog, connectsThenAccepts, notified,
                  pendingAtDestroy >>
  /\ UNCHANGED otherThanTransport

\* line 103: return m_socket; the unique_lock unlocks
GetSocketNonBlockingRead(t) ==
  /\ tpc[t] = "gn_read"
  /\ subMutex' = [subMutex EXCEPT ![sub[t]] = NoThread]
  /\ TReturn(t, [op |-> "getSocketNonBlocking", sub |-> sub[t],
                 sock |-> m_socket[sub[t]],
                 why |-> IF m_socket[sub[t]] = NoSocket THEN "no socket" ELSE "socket"])
  /\ TGoto(t, "idle")
  /\ UNCHANGED << ifaceAlive, m_submissions, m_mutex, nPipes, mySub,
                  subState, m_socket, m_valid >>
  /\ nbOutcomes' = IF tpc'[t] = "idle"
                     THEN nbOutcomes \cup {[why |-> tres'[t].why, sock |-> tres'[t].sock]}
                     ELSE nbOutcomes
  /\ UNCHANGED << connOrder, accOrder, acceptLog, connectsThenAccepts, notified,
                  pendingAtDestroy >>
  /\ UNCHANGED otherThanTransport

(***************************************************************************)
(* The last shared_ptr<Interface> is dropped: ~Interface (lines 64-66)     *)
(* unregisters the name, then the members are destroyed; m_submissions     *)
(* drops its references. Nothing touches the queued submissions. A thread  *)
(* inside a member function holds a reference, so none is inside.          *)
(***************************************************************************)
DestroyInterface ==
  /\ ifaceAlive /\ InInterface = {}
  /\ ifaceAlive' = FALSE
  /\ pendingAtDestroy' = {m_submissions[k] : k \in 1 .. Len(m_submissions)}
  /\ m_submissions' = << >>
  /\ UNCHANGED << m_mutex, nPipes, tpc, mySub,
                  connOrder, accOrder, acceptLog, connectsThenAccepts, nbOutcomes,
                  notified >>
  /\ UNCHANGED_locals /\ UNCHANGED_subs
  /\ UNCHANGED otherThanTransport

NextTransport ==
  \/ \E t \in Callers :
       \/ CallConnect(t)
       \/ ConnectLock(t)
       \/ ConnectPush(t)
       \/ ConnectNotify(t)
       \/ CallConnectNonBlocking(t)
       \/ \E w \in BOOLEAN : CallAccept(t, w)
       \/ AcceptLock(t)
       \/ AcceptCheck(t)
       \/ AcceptSpuriousWakeup(t)
       \/ AcceptPop(t)
       \/ SetSocketLock(t)
       \/ SetSocketStore(t)
       \/ SetSocketNotify(t)
       \/ AcceptReturn(t)
       \/ CallAcceptNonBlocking(t)
       \/ AcceptNonBlockingCheck(t)
       \/ NotifyAcceptors(t)
       \/ CallGetSocket(t)
       \/ GetSocketLock(t)
       \/ GetSocketCheck(t)
       \/ GetSocketSpuriousWakeup(t)
       \/ CallGetSocketNonBlocking(t)
       \/ GetSocketNonBlockingTry(t)
       \/ GetSocketNonBlockingRead(t)
  \/ DestroyInterface

(***************************************************************************)
(* The rendezvous: each Connector calls connect() and then getSocket() on  *)
(* the submission it got, each Acceptor calls accept(true); a Connector    *)
(* that has not connected yet may call notifyAcceptors().                  *)
(***************************************************************************)
RendezvousConnect(t) == mySub[t] = NoSub /\ CallConnect(t)

RendezvousGetSocket(t) == tres[t].why = "submitted" /\ CallGetSocket(t)

RendezvousNotify(t) == mySub[t] = NoSub /\ NotifyAcceptors(t)

RendezvousAccept(t) == tres[t] = NoTres /\ CallAccept(t, TRUE)

\* the steps of Connector t that the scheduler owes it
ConnectorProgress(t) ==
  \/ RendezvousConnect(t)
  \/ ConnectLock(t)
  \/ ConnectPush(t)
  \/ ConnectNotify(t)
  \/ RendezvousGetSocket(t)
  \/ GetSocketLock(t)
  \/ GetSocketCheck(t)

\* the steps of Acceptor t that the scheduler owes it
AcceptorProgress(t) ==
  \/ RendezvousAccept(t)
  \/ AcceptLock(t)
  \/ AcceptCheck(t)
  \/ AcceptPop(t)
  \/ SetSocketLock(t)
  \/ SetSocketStore(t)
  \/ SetSocketNotify(t)
  \/ AcceptReturn(t)

NextRendezvous ==
  \/ \E t \in Connectors :
       \/ ConnectorProgress(t)
       \/ GetSocketSpuriousWakeup(t)
       \/ RendezvousNotify(t)
  \/ \E t \in Acceptors :
       \/ AcceptorProgress(t)
       \/ AcceptSpuriousWakeup(t)

\* fair scheduling: a thread that can take a step again and again, takes it
\* (a thread that can lock a mutex again and again, gets it)
FairRendezvous ==
  /\ \A t \in Connectors : SF_vars(ConnectorProgress(t))
  /\ \A t \in Acceptors : SF_vars(AcceptorProgress(t))

(***************************************************************************)
(* Properties of the Interface and its submissions                         *)
(***************************************************************************)
\* the socket that is the other end of socket x
Peer(x) == Socket(x.out, x.in)

\* C1: submissions are fulfilled in the order of their connect calls: the
\* i-th popFront takes the submission of the i-th pushBack, so the queue is
\* always what was pushed and not yet popped, in push order; the socket a
\* submission gets is the peer of the socket the accept that popped it returns;
\* no queued submission has a socket (none is fulfilled out of turn).
C1_FifoPairing ==
  /\ Len(accOrder) <= Len(connOrder)
  /\ accOrder = SubSeq(connOrder, 1, Len(accOrder))
  /\ ifaceAlive => connOrder = accOrder \o m_submissions
  /\ Len(acceptLog) = Len(accOrder)
  /\ \A k \in 1 .. Len(accOrder) :
       m_socket[accOrder[k]] \in {NoSocket, Peer(acceptLog[k])}
  /\ \A k \in 1 .. Len(m_submissions) : m_socket[m_submissions[k]] = NoSocket
  /\ \A t \in TThreads :
       tres[t].why = "accepted" =>
         \E k \in 1 .. Len(accOrder) :
           /\ accOrder[k] = tres[t].sub
           /\ acceptLog[k] = tres[t].sock
           /\ m_socket[tres[t].sub] = Peer(tres[t].sock)

\* N >= 2 connect() calls, then N accept(true) calls: every submission has
\* the peer of the socket of the accept with its number
C1_Witness ==
  /\ connectsThenAccepts
  /\ Len(connOrder) >= 2
  /\ Len(accOrder) = Len(connOrder)
  /\ \A k \in 1 .. Len(accOrder) :
       /\ accOrder[k] = connOrder[k]
       /\ m_socket[connOrder[k]] = Peer(acceptLog[k])

\* C6: when the Interface is destroyed after notifyAcceptors with submissions
\* still queued, each of them is unfulfilled and invalid (isValid() is false).
C6_PendingSubmissionsInvalidated ==
  (~ifaceAlive /\ notified) =>
    \A x \in pendingAtDestroy : m_socket[x] = NoSocket /\ ~m_valid[x]

NullOutcomes == {"contended", "no socket", "invalid"}

Pipes(x) == {x.in, x.out}

\* C17: in every step, whatever the threads call: a socket that is set does
\* not change; and after the step no submission has been popped twice, only
\* popped submissions have a socket, every popFront has made two new Pipes
\* P1 # P2 that no other connection has, the accepting call has the socket
\* (in = P1, out = P2), and the submission, once fulfilled, has the socket
\* (in = P2, out = P1).
C17_EachSubmissionFulfilledOnce ==
  [][ /\ \A x \in Subs : m_socket[x] # NoSocket => m_socket'[x] = m_socket[x]
      /\ Len(acceptLog') = Len(accOrder')
      /\ \A j, k \in 1 .. Len(accOrder') :
           j # k => /\ accOrder'[j] # accOrder'[k]
                    /\ Pipes(acceptLog'[j]) \cap Pipes(acceptLog'[k]) = {}
      /\ \A k \in 1 .. Len(acceptLog') :
           /\ acceptLog'[k].in # acceptLog'[k].out
           /\ NoPipe \notin Pipes(acceptLog'[k])
           /\ m_socket'[accOrder'[k]] \in
                {NoSocket, Socket(acceptLog'[k].out, acceptLog'[k].in)}
      /\ \A x \in Subs :
           m_socket'[x] # NoSocket => \E k \in 1 .. Len(accOrder') : accOrder'[k] = x
      /\ \A t \in TThreads :
           tres'[t].why = "accepted" =>
             \E k \in 1 .. Len(accOrder') :
               /\ accOrder'[k] = tres'[t].sub
               /\ acceptLog'[k] = tres'[t].sock
               /\ m_socket'[tres'[t].sub] = Socket(tres'[t].sock.out, tres'[t].sock.in)
             /\ \A u \in TThreads \ {t} :
                  tres'[u].why = "accepted" => tres'[u].sub # tres'[t].sub
    ]_vars

\* two threads have each accepted a submission, one of them with
\* acceptNonBlocking, and both submissions are fulfilled
C17_Witness ==
  \E t, u \in TThreads :
    /\ t # u
    /\ tres[t].why = "accepted" /\ tres[t].op = "accept"
    /\ tres[u].why = "accepted" /\ tres[u].op = "acceptNonBlocking"
    /\ tres[t].sub # tres[u].sub
    /\ m_socket[tres[t].sub] = Peer(tres[t].sock)
    /\ m_socket[tres[u].sub] = Peer(tres[u].sock)

\* C18: in the rendezvous every accept(true) returns in the end, with a
\* socket; every getSocket() returns in the end, with the peer of the socket of
\* the accept that popped its submission; and at no time, whatever spurious
\* wakeups and notifyAcceptors calls there are, has an accept(true) returned
\* null or popped from an empty list.
C18_NoLostWakeup ==
  /\ \A t \in Acceptors :
       <>(tpc[t] = "idle" /\ tres[t].why = "accepted" /\ tres[t].sock # NoSocket)
  /\ \A t \in Connectors :
       <>(/\ tpc[t] = "idle"
          /\ tres[t].op = "getSocket"
          /\ tres[t].sub = mySub[t]
          /\ tres[t].sock # NoSocket
          /\ \E k \in 1 .. Len(accOrder) :
               accOrder[k] = mySub[t] /\ tres[t].sock = Peer(acceptLog[k]))
  /\ [](\A t \in Acceptors :
          /\ tpc[t] # "null dereference"
          /\ (tpc[t] = "idle" /\ tres[t] # NoTres) =>
               (tres[t].why = "accepted" /\ tres[t].sock # NoSocket))

\* all connects are paired: every Acceptor has a socket, every Connector has
\* its peer, after notifyAcceptors had been called
C18_Witness ==
  /\ notified
  /\ \A t \in Acceptors : tpc[t] = "idle" /\ tres[t].why = "accepted"
  /\ \A t \in Connectors :
       /\ tpc[t] = "idle"
       /\ tres[t].op = "getSocket"
       /\ tres[t].sock = m_socket[mySub[t]]
       /\ tres[t].sock # NoSocket
  /\ Len(accOrder) = NTrThreads

\* the submission mutexes thread t owns
HeldSubs(t) == {x \in Subs : subMutex[x] = t}

\* thread t stands at a lock() of a mutex that another thread owns
BlockedOnInterface(t) == tpc[t] \in {"co_lock", "ac_lock"} /\ ~MutexFree(m_mutex)

BlockedOnSubmission(t) ==
  tpc[t] \in {"ss_lock", "gs_lock"} /\ ~MutexFree(subMutex[sub[t]])

BlockedOnMutex(t) == BlockedOnInterface(t) \/ BlockedOnSubmission(t)

\* C20: the transport cannot deadlock on its mutexes. (a) Locks nest only as
\* Interface mutex, then Submission mutex: a thread that is about to take the
\* Interface mutex owns no Submission mutex, and nobody owns two Submission
\* mutexes. (b) A thread that waits on a condition variable owns no mutex.
\* (c) Nobody waits for a mutex it owns, the owner of a Submission mutex is
\* never blocked on a mutex, the owner of the Interface mutex is blocked at
\* most on a Submission mutex, and whenever a thread is blocked on a mutex
\* some thread that owns a mutex is not: the threads are never all blocked on
\* a mutex.
C20_DeadlockFree ==
  /\ \A t \in TThreads :
       /\ tpc[t] \in {"idle", "co_lock", "ac_lock"} => HeldSubs(t) = {} /\ m_mutex # t
       /\ Cardinality(HeldSubs(t)) <= 1
       /\ tpc[t] \in {"ss_lock", "gs_lock", "gn_try"} => HeldSubs(t) = {}
       /\ tpc[t] \in {"ac_wait", "gs_wait"} => HeldSubs(t) = {} /\ m_mutex # t
       /\ HeldSubs(t) # {} => ~BlockedOnMutex(t)
       /\ m_mutex = t => ~BlockedOnInterface(t)
  /\ (\E t \in TThreads : BlockedOnMutex(t))
       => \E u \in TThreads : ~BlockedOnMutex(u) /\ (m_mutex = u \/ HeldSubs(u) # {})

\* the acceptor owns the Interface mutex and, nested in it, the mutex of the
\* submission it fulfils, while the connector stands at the lock of that
\* submission's mutex in getSocket
C20_Witness ==
  \E t, u \in Callers :
    /\ tpc[t] = "ss_set" /\ m_mutex = t /\ subMutex[sub[t]] = t
    /\ tpc[u] = "gs_lock" /\ sub[u] = sub[t]
    /\ BlockedOnMutex(u)

(***************************************************************************)
(* HTTP request processing: HttpProcessor::processRequest and              *)
(* HttpProcessor::Coroutine, driven by HttpConnectionHandler::Task::run    *)
(***************************************************************************)
CONNECTION_STATE_CLOSE == "CLOSE"

CONNECTION_STATE_KEEP_ALIVE == "KEEP_ALIVE"

CONNECTION_STATE_UPGRADE == "UPGRADE"

Interceptors == 1..NInterceptors

\* a null std::shared_ptr<Response>
NoResponse ==
  [status |-> 0, by |-> "null", k |-> 0, message |-> "", headers |-> "", server |-> "",
   handler |-> FALSE]

\* a null std::shared_ptr<Request>
NoRequest == [connection |-> "null", protocol |-> "null"]

\* no exchange on the connection yet
NoExchange == [errorStatus |-> 0, ioStatus |-> 0, request |-> NoRequest, route |-> FALSE,
               intercept |-> [k \in Interceptors |-> "null"], handle |-> "-",
               server |-> "", handler |-> FALSE]

\* the requests a client sends: the Connection header and the protocol version
Requests ==
  { [connection |-> "", protocol |-> "HTTP/1.1"],
    [connection |-> "", protocol |-> "HTTP/1.0"],
    [connection |-> "close", protocol |-> "HTTP/1.1"],
    [connection |-> "upgrade", protocol |-> "HTTP/1.1"] }

\* what a call of an interceptor or of the endpoint can do: return a Response,
\* return null (interceptors only), throw HttpError, throw a std::exception,
\* throw anything else
Throws == {"HttpError", "std::exception", "unknown"}

\* what each interceptor does with a request when it is asked: one that comes
\* after an interceptor that answers may have an answer of its own, one that
\* comes after an interceptor that throws is left at "null"
InterceptorOutcomes ==
  { f \in [Interceptors -> {"null", "response"} \cup Throws] :
      \A j, k \in Interceptors :
         j < k => /\ f[j] \in Throws => f[k] = "null"
                  /\ f[j] = "response" => f[k] \notin Throws }

AllNull(f) == \A k \in Interceptors : f[k] = "null"

\* the exchange is answered by an interceptor or by the endpoint
Responds(x) ==
  \/ \E k \in Interceptors : /\ x.intercept[k] = "response"
                              /\ \A j \in 1..(k - 1) : x.intercept[j] = "null"
  \/ AllNull(x.intercept) /\ x.handle = "response"

\* the exchanges that can arrive: the header reader fails with a protocol
\* error (error.status.code # 0), or with an io status <= 0, or delivers the
\* headers; the router finds a route or not; the interceptors and the endpoint
\* answer, pass or throw (the endpoint of a route always has an answer or
\* throws, also when an interceptor keeps the request from it); a Response they
\* build carries its own Server header or none, and an upgrade handler or none
Exchanges ==
  { x \in [errorStatus : {0, 400, 431}, ioStatus : {-1, 0, 1}, request : Requests \cup {NoRequest},
           route : BOOLEAN, intercept : InterceptorOutcomes,
           handle : {"null", "response"} \cup Throws,
           server : {"", "custom"}, handler : BOOLEAN] :
      LET parsed == x.errorStatus = 0 /\ x.ioStatus > 0
          routed == parsed /\ x.route
      IN  /\ x.errorStatus # 0 => x.ioStatus = 1
          /\ (x.request # NoRequest) <=> parsed
          /\ ~parsed => ~x.route
          /\ ~routed => AllNull(x.intercept)
          /\ (x.handle # "null") <=> routed
          /\ (routed /\ ~AllNull(x.intercept)) => x.handle = "response"
          /\ ~Responds(x) => (x.server = "" /\ ~x.handler) }

\* ErrorHandler::handleError(status, message)
HandleError(status, message) ==
  [status |-> status, by |-> "errorHandler", k |-> 0, message |-> message,
   headers |-> "", server |-> "", handler |-> FALSE]

\* ErrorHandler::handleError(status, message, headers)
HandleErrorWithHeaders(status, message, headers) ==
  [HandleError(status, message) EXCEPT !.headers = headers]

\* the Response interceptor k builds for exchange x
InterceptorResponse(x, k) ==
  [status |-> 403, by |-> "interceptor", k |-> k, message |-> "", headers |-> "",
   server |-> x.server, handler |-> x.handler]

\* the Response the endpoint builds for exchange x
EndpointResponse(x) ==
  [status |-> 200, by |-> "endpoint", k |-> 0, message |-> "", headers |-> "",
   server |-> x.server, handler |-> x.handler]

\* the HttpError an interceptor or the endpoint throws: getInfo().status,
\* getMessage() and getHeaders(); and the what() of a std::exception it throws
ThrownInfo ==
  [status |-> 503, message |-> "overloaded", headers |-> "Retry-After", what |-> "bad_alloc"]

\* Response::putHeaderIfNotExists(Header::SERVER, Header::Value::SERVER)
PutServerHeaderIfNotExists(r) ==
  IF r.server = "" THEN [r EXCEPT !.server = "oatpp"] ELSE r

\* CommunicationUtils::considerConnectionState(request, response)
considerConnectionState(request, resp) ==
  IF request = NoRequest THEN CONNECTION_STATE_CLOSE
  ELSE IF request.connection = "upgrade" THEN CONNECTION_STATE_UPGRADE
  ELSE IF request.connection = "close" THEN CONNECTION_STATE_CLOSE
  ELSE IF request.protocol = "HTTP/1.1" THEN CONNECTION_STATE_KEEP_ALIVE
  ELSE CONNECTION_STATE_CLOSE

\* an entry of the log of invocations
Call(fn, k) == [fn |-> fn, k |-> k]

(***************************************************************************)
(* HttpProcessor::processRequest                                           *)
(***************************************************************************)
IoFailedBelowZero(x) == x.ioStatus < 0

\* if(error.ioStatus <= 0)
IoFailed(x) == x.ioStatus <= 0

NoRouteStateKept(state) == state

\* connectionState as the no-route branch assigns it
NoRouteState(state) == CONNECTION_STATE_CLOSE

ChainNeverBroken(r) == FALSE

\* if(response) break;
ChainBroken(r) == r # NoResponse

\* one call of interceptor k, or of the endpoint (k = 0), for exchange x
Invoke(x, k) ==
  LET outcome == IF k = 0 THEN x.handle ELSE x.intercept[k]
  IN  [response |-> IF outcome # "response" THEN NoResponse
                    ELSE IF k = 0 THEN EndpointResponse(x)
                    ELSE InterceptorResponse(x, k),
       thrown |-> IF outcome \in Throws THEN outcome ELSE ""]

RECURSIVE InterceptFrom(_, _, _, _)
\* the while loop over the interceptors, from interceptor k on, with the
\* response assigned so far and the calls made so far
InterceptFrom(x, k, resp, calls) ==
  IF k > NInterceptors THEN [response |-> resp, thrown |-> "", calls |-> calls]
  ELSE LET i == Invoke(x, k)
           made == Append(calls, Call("intercept", k))
       IN  IF i.thrown # "" THEN [response |-> resp, thrown |-> i.thrown, calls |-> made]
           ELSE IF ChainBroken(i.response)
                THEN [response |-> i.response, thrown |-> "", calls |-> made]
                ELSE InterceptFrom(x, k + 1, i.response, made)

\* the body of the try block: the interceptors, then the endpoint if(!response)
TryHandle(x) ==
  LET c == InterceptFrom(x, 1, NoResponse, <<>>)
  IN  IF c.thrown # "" \/ c.response # NoResponse THEN c
      ELSE LET e == Invoke(x, 0)
           IN  [response |-> e.response, thrown |-> e.thrown,
                calls |-> Append(c.calls, Call("handle", 0))]

CatchAsUnknown(thrown) == HandleError(500, "Unknown error")

\* the catch clauses
Catch(thrown) ==
  CASE thrown = "HttpError" ->
         HandleErrorWithHeaders(ThrownInfo.status, ThrownInfo.message, ThrownInfo.headers)
    [] thrown = "std::exception" -> HandleError(500, ThrownInfo.what)
    [] OTHER -> HandleError(500, "Unknown error")

\* processRequest for exchange x with connectionState = state at the call:
\* the Response returned, connectionState at the return, the calls made
processRequest(x, state) ==
  LET read == << Call("readHeaders", 0) >>
  IN  IF x.errorStatus # 0
      THEN [response |-> HandleError(x.errorStatus, "Invalid request headers"),
            connectionState |-> CONNECTION_STATE_CLOSE,
            calls |-> read \o << Call("handleError", 0) >>]
      ELSE IF IoFailed(x)
      THEN [response |-> NoResponse,
            connectionState |-> CONNECTION_STATE_CLOSE,
            calls |-> read]
      ELSE IF ~x.route
      THEN [response |-> HandleError(404, "Current url has no mapping"),
            connectionState |-> NoRouteState(state),
            calls |-> read \o << Call("getRoute", 0), Call("handleError", 0) >>]
      ELSE LET t == TryHandle(x)
               routed == read \o << Call("getRoute", 0) >> \o t.calls
           IN  IF t.thrown # ""
               THEN [response |-> Catch(t.thrown),
                     connectionState |-> state,
                     calls |-> Append(routed, Call("handleError", 0))]
               ELSE [response |-> PutServerHeaderIfNotExists(t.response),
                     connectionState |-> considerConnectionState(x.request, t.response),
                     calls |-> routed]

(***************************************************************************)
(* HttpConnectionHandler::Task::run                                        *)
(***************************************************************************)
InitSync ==
  /\ syncPc = "read"
  /\ syncSeen = FALSE
  /\ connectionState = CONNECTION_STATE_CLOSE
  /\ response = NoResponse
  /\ syncPrevState = CONNECTION_STATE_CLOSE
  /\ syncCalls = << >>
  /\ syncSent = 0
  /\ syncUpgrades = 0

\* the executor is not in the middle of an exchange
SyncIdle == syncPc = "done" \/ (syncPc = "read" /\ (syncSeen \/ cur = NoExchange))

\* the body of the do loop: processRequest, then send or return
SyncProcessRequest ==
  /\ syncPc = "read"
  /\ ~syncSeen
  /\ cur # NoExchange
  /\ LET p == processRequest(cur, connectionState)
     IN  /\ response' = p.response
         /\ connectionState' = p.connectionState
         /\ syncCalls' = p.calls
         /\ IF p.response # NoResponse
            THEN syncSent' = 1 /\ syncPc' = "sent"
            ELSE syncSent' = 0 /\ syncPc' = "done"
  /\ syncPrevState' = connectionState
  /\ syncSeen' = TRUE
  /\ UNCHANGED << syncUpgrades, cur, asyncVars, otherThanHttp >>

LoopUnlessClose(state) == state # CONNECTION_STATE_CLOSE

\* while(connectionState == CONNECTION_STATE_KEEP_ALIVE)
LoopAgain(state) == state = CONNECTION_STATE_KEEP_ALIVE

\* the while condition, and what follows the loop
SyncWhile ==
  /\ syncPc = "sent"
  /\ IF LoopAgain(connectionState)
     THEN syncPc' = "read" /\ UNCHANGED syncUpgrades
     ELSE /\ syncPc' = "done"
          /\ syncUpgrades' = IF connectionState = CONNECTION_STATE_UPGRADE /\ response.handler
                             THEN syncUpgrades + 1
                             ELSE syncUpgrades
  /\ UNCHANGED << syncSeen, connectionState, response, syncPrevState, syncCalls, syncSent,
                  cur, asyncVars, otherThanHttp >>

(***************************************************************************)
(* HttpProcessor::Coroutine                                                *)
(***************************************************************************)
\* a null Error*
NoError == [type |-> "null", code |-> "", what |-> ""]

\* an oatpp::data::AsyncIOError with the given IOError code
AsyncIOError(code) == [type |-> "AsyncIOError", code |-> code, what |-> "io"]

\* any other oatpp::async::Error
Error(what) == [type |-> "Error", code |-> "", what |-> what]

\* the Error the coroutine is given when a call throws
ThrownError(thrown) ==
  CASE thrown = "HttpError" -> Error(ThrownInfo.message)
    [] thrown = "std::exception" -> Error(ThrownInfo.what)
    [] OTHER -> Error("Unknown error")

IOErrorCodes == {"BROKEN_PIPE", "ZERO_VALUE"}

InitAsync ==
  /\ asyncPc = "act"
  /\ asyncSeen = FALSE
  /\ m_currentRoute = FALSE
  /\ m_currentRequest = NoRequest
  /\ m_currentResponse = NoResponse
  /\ m_connectionState = CONNECTION_STATE_CLOSE
  /\ asyncError = NoError
  /\ asyncResult = NoResponse
  /\ asyncCalls = << >>
  /\ asyncSent = 0
  /\ asyncUpgrades = 0

\* the coroutine is not in the middle of an exchange
AsyncIdle ==
  \/ asyncPc \in {"finished", "error"}
  \/ asyncPc = "act" /\ (asyncSeen \/ cur = NoExchange)

AGoto(pc) == asyncPc' = pc

\* act(): readHeadersAsync, continued by onHeadersParsed or by handleError.
\* The two executors share nothing but the exchange they are given, so the
\* coroutine is scheduled after Task::run has dealt with the same exchange.
CoroutineAct ==
  /\ asyncPc = "act"
  /\ ~asyncSeen
  /\ cur # NoExchange
  /\ SyncIdle
  /\ asyncSeen' = TRUE
  /\ asyncCalls' = << Call("readHeaders", 0) >>
  /\ IF cur.errorStatus # 0
     THEN asyncError' = Error("Invalid request headers") /\ AGoto("handleError")
     ELSE IF cur.ioStatus <= 0
     THEN \E code \in IOErrorCodes : asyncError' = AsyncIOError(code) /\ AGoto("handleError")
     ELSE asyncError' = NoError /\ AGoto("onHeadersParsed")
  /\ UNCHANGED << m_currentRoute, m_currentRequest, m_currentResponse, m_connectionState,
                  asyncResult, asyncSent, asyncUpgrades, cur, syncVars, otherThanHttp >>

\* if(m_currentResponse) return yieldTo(onResponseFormed)
AsyncChainBroken(r) == r # NoResponse

RECURSIVE AsyncInterceptFrom(_, _, _, _)
\* the while loop of onHeadersParsed, from interceptor k on, with
\* m_currentResponse as assigned so far and the calls made so far
AsyncInterceptFrom(x, k, current, calls) ==
  IF k > NInterceptors
  THEN [m_currentResponse |-> current, thrown |-> "", next |-> "onRequestFormed", calls |-> calls]
  ELSE LET i == Invoke(x, k)
           made == Append(calls, Call("intercept", k))
       IN  IF i.thrown # ""
           THEN [m_currentResponse |-> current, thrown |-> i.thrown, next |-> "handleError",
                 calls |-> made]
           ELSE IF AsyncChainBroken(i.response)
                THEN [m_currentResponse |-> i.response, thrown |-> "",
                      next |-> "onResponseFormed", calls |-> made]
                ELSE AsyncInterceptFrom(x, k + 1, i.response, made)

CoroutineOnHeadersParsed ==
  /\ asyncPc = "onHeadersParsed"
  /\ m_currentRoute' = cur.route
  /\ IF ~cur.route
     THEN /\ m_currentResponse' = HandleError(404, "Current url has no mapping")
          /\ asyncCalls' = asyncCalls \o << Call("getRoute", 0), Call("handleError", 0) >>
          /\ AGoto("onResponseFormed")
          /\ UNCHANGED << m_currentRequest, asyncError >>
     ELSE LET c == AsyncInterceptFrom(cur, 1, m_currentResponse,
                                      Append(asyncCalls, Call("getRoute", 0)))
          IN  /\ m_currentRequest' = cur.request
              /\ m_currentResponse' = c.m_currentResponse
              /\ asyncCalls' = c.calls
              /\ asyncError' = IF c.thrown # "" THEN ThrownError(c.thrown) ELSE asyncError
              /\ AGoto(c.next)
  /\ UNCHANGED << asyncSeen, m_connectionState, asyncResult, asyncSent, asyncUpgrades,
                  cur, syncVars, otherThanHttp >>

\* onRequestFormed(): the endpoint's handleAsync, continued by onResponse or
\* by handleError
CoroutineOnRequestFormed ==
  /\ asyncPc = "onRequestFormed"
  /\ LET e == Invoke(cur, 0)
     IN  /\ asyncCalls' = Append(asyncCalls, Call("handle", 0))
         /\ IF e.thrown # ""
            THEN asyncError' = ThrownError(e.thrown) /\ AGoto("handleError")
                 /\ UNCHANGED asyncResult
            ELSE asyncResult' = e.response /\ AGoto("onResponse")
                 /\ UNCHANGED asyncError
  /\ UNCHANGED << asyncSeen, m_currentRoute, m_currentRequest, m_currentResponse,
                  m_connectionState, asyncSent, asyncUpgrades, cur, syncVars, otherThanHttp >>

CoroutineOnResponse ==
  /\ asyncPc = "onResponse"
  /\ m_currentResponse' = asyncResult
  /\ asyncResult' = NoResponse
  /\ AGoto("onResponseFormed")
  /\ UNCHANGED << asyncSeen, m_currentRoute, m_currentRequest, m_connectionState, asyncError,
                  asyncCalls, asyncSent, asyncUpgrades, cur, syncVars, otherThanHttp >>

\* onResponseFormed(): the Server header, the connection state, then sendAsync,
\* continued by onRequestDone or, when the write fails, by handleError
CoroutineOnResponseFormed ==
  /\ asyncPc = "onResponseFormed"
  /\ m_currentResponse' = PutServerHeaderIfNotExists(m_currentResponse)
  /\ m_connectionState' = considerConnectionState(m_currentRequest, m_currentResponse)
  /\ \/ /\ asyncSent' = asyncSent + 1
        /\ AGoto("onRequestDone")
        /\ UNCHANGED asyncError
     \/ /\ \E code \in IOErrorCodes : asyncError' = AsyncIOError(code)
        /\ AGoto("handleError")
        /\ UNCHANGED asyncSent
  /\ asyncCalls' = Append(asyncCalls, Call("sendAsync", 0))
  /\ UNCHANGED << asyncSeen, m_currentRoute, m_currentRequest, asyncResult,
                  asyncUpgrades, cur, syncVars, otherThanHttp >>

AsyncLoopUnlessClose(state) == state # CONNECTION_STATE_CLOSE

\* if(m_connectionState == CONNECTION_STATE_KEEP_ALIVE)
AsyncLoopAgain(state) == state = CONNECTION_STATE_KEEP_ALIVE

CoroutineOnRequestDone ==
  /\ asyncPc = "onRequestDone"
  /\ IF AsyncLoopAgain(m_connectionState)
     THEN AGoto("act") /\ UNCHANGED asyncUpgrades
     ELSE /\ AGoto("finished")
          /\ asyncUpgrades' = IF /\ m_connectionState = CONNECTION_STATE_UPGRADE
                                 /\ m_currentResponse.handler
                              THEN asyncUpgrades + 1
                              ELSE asyncUpgrades
  /\ UNCHANGED << asyncSeen, m_currentRoute, m_currentRequest, m_currentResponse,
                  m_connectionState, asyncError, asyncResult, asyncCalls, asyncSent,
                  cur, syncVars, otherThanHttp >>

\* a handleError that takes no notice of the Response it has at hand
NoCurrentResponse(r) == FALSE

\* line 352: if(m_currentResponse)
HasCurrentResponse(r) == r # NoResponse

CoroutineHandleError ==
  /\ asyncPc = "handleError"
  /\ IF asyncError = NoError
     THEN AGoto("error") /\ UNCHANGED << m_currentResponse, asyncCalls, asyncError >>
     ELSE IF asyncError.type = "AsyncIOError" /\ asyncError.code = "BROKEN_PIPE"
     THEN AGoto("error") /\ UNCHANGED << m_currentResponse, asyncCalls, asyncError >>
     ELSE IF HasCurrentResponse(m_currentResponse)
     THEN AGoto("error") /\ UNCHANGED << m_currentResponse, asyncCalls, asyncError >>
     ELSE /\ m_currentResponse' = HandleError(500, asyncError.what)
          /\ asyncCalls' = Append(asyncCalls, Call("handleError", 0))
          /\ asyncError' = NoError
          /\ AGoto("onResponseFormed")
  /\ UNCHANGED << asyncSeen, m_currentRoute, m_currentRequest, m_connectionState,
                  asyncResult, asyncSent, asyncUpgrades, cur, syncVars, otherThanHttp >>

(***************************************************************************)
(* The connection                                                          *)
(***************************************************************************)
InitHttp == cur = NoExchange /\ InitSync /\ InitAsync

\* the next exchange arrives on the connection, the same for both executors,
\* once neither is in the middle of the previous one
Arrive(x) ==
  /\ SyncIdle
  /\ AsyncIdle
  /\ syncPc = "read" \/ asyncPc = "act"
  /\ cur' = x
  /\ syncSeen' = FALSE
  /\ asyncSeen' = FALSE
  /\ syncPrevState' = connectionState
  /\ syncCalls' = << >>
  /\ asyncCalls' = << >>
  /\ syncSent' = 0
  /\ asyncSent' = 0
  /\ UNCHANGED << syncPc, connectionState, response, syncUpgrades, asyncPc, m_currentRoute,
                  m_currentRequest, m_currentResponse, m_connectionState, asyncError,
                  asyncResult, asyncUpgrades, otherThanHttp >>

NextHttp ==
  \/ \E x \in Exchanges : Arrive(x)
  \/ SyncProcessRequest
  \/ SyncWhile
  \/ CoroutineAct
  \/ CoroutineOnHeadersParsed
  \/ CoroutineOnRequestFormed
  \/ CoroutineOnResponse
  \/ CoroutineOnResponseFormed
  \/ CoroutineOnRequestDone
  \/ CoroutineHandleError

(***************************************************************************)
(* Properties of request processing                                        *)
(***************************************************************************)
\* the header reader delivered the headers of exchange x
Parsed(x) == x # NoExchange /\ x.errorStatus = 0 /\ x.ioStatus > 0

Routed(x) == Parsed(x) /\ x.route

InterceptCalls(calls) == SelectSeq(calls, LAMBDA c : c.fn = "intercept")

HandleCalls(calls) == Len(SelectSeq(calls, LAMBDA c : c.fn = "handle"))

RouterCalls(calls) == Len(SelectSeq(calls, LAMBDA c : c.fn = "getRoute"))

\* the interceptors that do not return null for exchange x
NotNull(x) == { k \in Interceptors : x.intercept[k] # "null" }

\* the last interceptor that has to be asked for exchange x: the first that
\* does not return null, the last registered if there is none
LastAsked(x) ==
  IF NotNull(x) = {} THEN NInterceptors
  ELSE CHOOSE k \in NotNull(x) : \A j \in NotNull(x) : k <= j

InRegistrationOrder(x) == [k \in 1..LastAsked(x) |-> Call("intercept", k)]

\* C8: once processRequest has dealt with an exchange whose header reader
\* reported a protocol error status, the Response is the error handler's for
\* that status, it is the one written, and connectionState is CLOSE; when the
\* reader reported no protocol error but an io status <= 0, there is no
\* Response, nothing is written, Task::run returns, and connectionState is
\* CLOSE; in both cases the router, the interceptors and the endpoint were not
\* invoked.
C8_HeaderFailureClosesConnection ==
  (syncSeen /\ cur # NoExchange) =>
    /\ cur.errorStatus # 0 =>
         /\ response = HandleError(cur.errorStatus, "Invalid request headers")
         /\ syncSent = 1
         /\ connectionState = CONNECTION_STATE_CLOSE
         /\ RouterCalls(syncCalls) = 0
         /\ InterceptCalls(syncCalls) = << >>
         /\ HandleCalls(syncCalls) = 0
    /\ (cur.errorStatus = 0 /\ cur.ioStatus <= 0) =>
         /\ response = NoResponse
         /\ syncSent = 0
         /\ syncPc = "done"
         /\ connectionState = CONNECTION_STATE_CLOSE
         /\ RouterCalls(syncCalls) = 0
         /\ InterceptCalls(syncCalls) = << >>
         /\ HandleCalls(syncCalls) = 0

\* an exchange whose read ended with io status 0 on a connection that the
\* exchange before had left KEEP_ALIVE
C8_Witness ==
  /\ syncSeen
  /\ cur.errorStatus = 0
  /\ cur.ioStatus = 0
  /\ syncPrevState = CONNECTION_STATE_KEEP_ALIVE
  /\ connectionState = CONNECTION_STATE_CLOSE
  /\ response = NoResponse
  /\ syncPc = "done"

\* C9: once processRequest has dealt with an exchange for which the router has
\* no route, the Response is the error handler's 404 and connectionState is
\* CLOSE, whatever it was before the call, and no interceptor and no endpoint
\* was invoked.
C9_NoRouteIs404AndClose ==
  (syncSeen /\ Parsed(cur) /\ ~cur.route) =>
    /\ response = HandleError(404, "Current url has no mapping")
    /\ syncSent = 1
    /\ connectionState = CONNECTION_STATE_CLOSE
    /\ RouterCalls(syncCalls) = 1
    /\ InterceptCalls(syncCalls) = << >>
    /\ HandleCalls(syncCalls) = 0

\* a keep-alive request without a route on a connection that the exchange
\* before had left KEEP_ALIVE
C9_Witness ==
  /\ syncSeen
  /\ Parsed(cur)
  /\ ~cur.route
  /\ cur.request = [connection |-> "", protocol |-> "HTTP/1.1"]
  /\ syncPrevState = CONNECTION_STATE_KEEP_ALIVE
  /\ connectionState = CONNECTION_STATE_CLOSE
  /\ response.status = 404

\* C10: for an exchange with a route, in Task::run once processRequest has
\* returned and in the Coroutine once onHeadersParsed has run, the interceptors
\* invoked are the registered ones in registration order up to the first that
\* does not return null and no other; when an interceptor returns a Response
\* that Response is the exchange's Response and the endpoint is not invoked;
\* the endpoint is invoked once when every interceptor returned null (in the
\* Coroutine: once onRequestFormed has run) and not at all otherwise.
C10_InterceptorsInOrderShortCircuit ==
  /\ (syncSeen /\ Routed(cur)) =>
       /\ InterceptCalls(syncCalls) = InRegistrationOrder(cur)
       /\ HandleCalls(syncCalls) = IF AllNull(cur.intercept) THEN 1 ELSE 0
       /\ cur.intercept[LastAsked(cur)] = "response" =>
            /\ response = PutServerHeaderIfNotExists(InterceptorResponse(cur, LastAsked(cur)))
            /\ syncSent = 1
  /\ (asyncSeen /\ Routed(cur) /\ asyncPc # "onHeadersParsed") =>
       /\ InterceptCalls(asyncCalls) = InRegistrationOrder(cur)
       /\ HandleCalls(asyncCalls) =
            IF AllNull(cur.intercept) /\ asyncPc # "onRequestFormed" THEN 1 ELSE 0
       /\ cur.intercept[LastAsked(cur)] = "response" =>
            /\ PutServerHeaderIfNotExists(m_currentResponse)
                 = PutServerHeaderIfNotExists(InterceptorResponse(cur, LastAsked(cur)))
            /\ asyncPc \in {"onResponseFormed", "onRequestDone", "act", "finished",
                            "handleError", "error"}
            /\ asyncPc \in {"onRequestDone", "act", "finished"} => asyncSent = 1

\* the first interceptor returns null, the second returns a Response, and both
\* executors have sent it, the endpoint not having been asked
C10_Witness ==
  /\ syncSeen
  /\ asyncSeen
  /\ Routed(cur)
  /\ cur.intercept[1] = "null"
  /\ cur.intercept[2] = "response"
  /\ cur.handle = "response"
  /\ InterceptCalls(syncCalls) = << Call("intercept", 1), Call("intercept", 2) >>
  /\ InterceptCalls(asyncCalls) = << Call("intercept", 1), Call("intercept", 2) >>
  /\ response.by = "interceptor"
  /\ response.k = 2
  /\ m_currentResponse = response
  /\ syncSent = 1
  /\ asyncSent = 1

\* what is thrown while exchange x is handled: by the first interceptor that
\* does not return null, or by the endpoint when every interceptor returned
\* null; "" when nothing is thrown
Fault(x) ==
  IF ~Routed(x) THEN ""
  ELSE IF ~AllNull(x.intercept)
       THEN IF x.intercept[LastAsked(x)] \in Throws THEN x.intercept[LastAsked(x)] ELSE ""
       ELSE IF x.handle \in Throws THEN x.handle ELSE ""

\* C11: once processRequest has dealt with an exchange in which an interceptor
\* or the endpoint threw, it has returned a Response, which Task::run has
\* written: for an HttpError the error handler's Response for the error's
\* status, message and headers; for a std::exception the error handler's 500
\* with what(); for anything else the error handler's 500 "Unknown error".
C11_FaultsBecomeResponses ==
  (syncSeen /\ Fault(cur) # "") =>
    /\ syncPc \in {"sent", "read", "done"}
    /\ syncSent = 1
    /\ response # NoResponse
    /\ Fault(cur) = "HttpError" =>
         response = HandleErrorWithHeaders(ThrownInfo.status, ThrownInfo.message,
                                           ThrownInfo.headers)
    /\ Fault(cur) = "std::exception" => response = HandleError(500, ThrownInfo.what)
    /\ Fault(cur) = "unknown" => response = HandleError(500, "Unknown error")

\* the endpoint throws an HttpError with status 503 and message "overloaded",
\* and the Response written has that status and message
C11_Witness ==
  /\ syncSeen
  /\ Routed(cur)
  /\ AllNull(cur.intercept)
  /\ cur.handle = "HttpError"
  /\ HandleCalls(syncCalls) = 1
  /\ response.status = 503
  /\ response.message = "overloaded"
  /\ response.headers = "Retry-After"
  /\ syncSent = 1

\* C12: once processRequest has returned a Response for an exchange with a
\* route (the endpoint's, an interceptor's, or the error Response for something
\* thrown), the Response carries a Server header, its own if it had one, and
\* connectionState is what considerConnectionState gives for this exchange's
\* request and this Response.
C12_ServerHeaderAndOwnConnectionState ==
  (syncSeen /\ Routed(cur) /\ response # NoResponse) =>
    /\ response.server # ""
    /\ (Fault(cur) = "" /\ cur.server # "") => response.server = cur.server
    /\ connectionState = considerConnectionState(cur.request, response)

\* C13: every step of Task::run is one of these. processRequest returns a
\* Response and it is written before anything is decided; or processRequest
\* returns no Response and Task::run returns at once, nothing written and no
\* upgrade handler invoked. After a written Response Task::run goes back to
\* read the next exchange exactly when connectionState is KEEP_ALIVE; otherwise
\* it returns, having invoked the Response's upgrade handler once exactly when
\* connectionState is UPGRADE and the Response has one. It never invokes more
\* than one upgrade handler and does nothing after it has returned.
C13_SyncExecutorLoop ==
  [][ /\ syncPc = "read" /\ syncPc' # "read" =>
           /\ syncUpgrades' = syncUpgrades
           /\ IF response' # NoResponse
              THEN syncPc' = "sent" /\ syncSent' = 1
              ELSE syncPc' = "done" /\ syncSent' = 0
      /\ syncPc = "sent" /\ syncPc' # "sent" =>
           /\ syncSent = 1
           /\ response' = response
           /\ connectionState' = connectionState
           /\ syncPc' = "read" <=> connectionState = CONNECTION_STATE_KEEP_ALIVE
           /\ syncPc' = "done" <=> connectionState # CONNECTION_STATE_KEEP_ALIVE
           /\ syncUpgrades' =
                IF connectionState = CONNECTION_STATE_UPGRADE /\ response.handler
                THEN syncUpgrades + 1
                ELSE syncUpgrades
      /\ (syncPc = "sent" /\ syncPc' = "sent") => syncSent' = syncSent
      /\ syncPc = "done" =>
           /\ syncPc' = "done"
           /\ syncUpgrades' = syncUpgrades
           /\ syncSent' = 0 \/ syncSent' = syncSent
      /\ syncUpgrades' <= 1
    ]_vars

\* Task::run has written a Response that has an upgrade handler, with
\* connectionState UPGRADE, has invoked the handler once and has returned
C13_Witness ==
  /\ syncPc = "done"
  /\ syncSeen
  /\ syncSent = 1
  /\ connectionState = CONNECTION_STATE_UPGRADE
  /\ response.handler
  /\ syncUpgrades = 1

\* C14: the Coroutine comes to onRequestDone only from onResponseFormed and
\* only with the Response sent. From onRequestDone it goes back to act() exactly
\* when m_connectionState is KEEP_ALIVE and otherwise finishes, having invoked
\* the Response's upgrade handler once exactly when m_connectionState is
\* UPGRADE and the Response has one. No other step invokes an upgrade handler,
\* and no more than one is invoked.
C14_RequestDoneBranchesLikeSync ==
  [][ /\ (asyncPc # "onRequestDone" /\ asyncPc' = "onRequestDone") =>
           /\ asyncPc = "onResponseFormed"
           /\ asyncSent' = asyncSent + 1
           /\ asyncSent' = 1
      /\ (asyncPc = "onRequestDone" /\ asyncPc' # "onRequestDone") =>
           /\ asyncSent = 1
           /\ m_currentResponse' = m_currentResponse
           /\ asyncPc' = "act" <=> m_connectionState = CONNECTION_STATE_KEEP_ALIVE
           /\ asyncPc' = "finished" <=> m_connectionState # CONNECTION_STATE_KEEP_ALIVE
           /\ asyncUpgrades' =
                IF m_connectionState = CONNECTION_STATE_UPGRADE /\ m_currentResponse.handler
                THEN asyncUpgrades + 1
                ELSE asyncUpgrades
      /\ asyncPc # "onRequestDone" => asyncUpgrades' = asyncUpgrades
      /\ asyncPc \in {"finished", "error"} => asyncPc' = asyncPc
      /\ asyncUpgrades' <= 1
    ]_vars

\* the Coroutine has sent a Response that has an upgrade handler, with
\* m_connectionState UPGRADE, has invoked the handler once and has finished
C14_Witness ==
  /\ asyncPc = "finished"
  /\ asyncSeen
  /\ asyncSent = 1
  /\ m_connectionState = CONNECTION_STATE_UPGRADE
  /\ m_currentResponse.handler
  /\ asyncUpgrades = 1

\* the Response of the current exchange has been handed to sendAsync
InFlight(calls) == \E i \in DOMAIN calls : calls[i].fn = "sendAsync"

BrokenPipe(e) == e.type = "AsyncIOError" /\ e.code = "BROKEN_PIPE"

\* C15: every step of handleError, in the first and in every later exchange of
\* the connection, does this: for a broken pipe the Coroutine ends and no
\* Response is formed; for any other Error raised before this exchange's
\* Response was handed to sendAsync the error handler's Response is formed and
\* the Coroutine continues with onResponseFormed; only for an Error raised once
\* the Response was handed to sendAsync the Coroutine ends with the Error.
C15_AsyncFaultsBecomeResponses ==
  [][ (asyncPc = "handleError" /\ asyncPc' # "handleError") =>
        IF BrokenPipe(asyncError)
        THEN asyncPc' = "error" /\ m_currentResponse' = m_currentResponse
        ELSE IF ~InFlight(asyncCalls)
        THEN /\ asyncPc' = "onResponseFormed"
             /\ m_currentResponse' = HandleError(500, asyncError.what)
        ELSE asyncPc' = "error" /\ m_currentResponse' = m_currentResponse
    ]_vars

\* what an executor does after a Response, given the connection state
Decision(state, resp) ==
  IF state = CONNECTION_STATE_KEEP_ALIVE THEN "loop"
  ELSE IF state = CONNECTION_STATE_UPGRADE /\ resp.handler THEN "upgrade-handoff"
  ELSE "close"

\* C16: when Task::run and the Coroutine have been given the same exchanges on
\* their connection and the Coroutine has sent its Response for the current
\* one, Task::run has written a Response with the same status for it and the
\* two decide the same way what to do next.
C16_SyncAndAsyncAgree ==
  (syncSeen /\ asyncSeen /\ asyncPc = "onRequestDone") =>
    /\ response.status = m_currentResponse.status
    /\ Decision(connectionState, response) = Decision(m_connectionState, m_currentResponse)

\* the error Responses formed for the current exchange: what the error
\* handler was asked for by onHeadersParsed (404) or by handleError (500)
ErrorResponsesFormed(calls) ==
  Cardinality({i \in DOMAIN calls : calls[i].fn = "handleError"})

\* the Coroutine is in the middle of an exchange
AsyncInExchange ==
  asyncPc \in {"onHeadersParsed", "onRequestFormed", "onResponse", "onResponseFormed",
               "onRequestDone", "handleError"}

\* the steps the executor of the coroutine owes it in the middle of an exchange
CoroutineContinues ==
  \/ CoroutineOnHeadersParsed
  \/ CoroutineOnRequestFormed
  \/ CoroutineOnResponse
  \/ CoroutineOnResponseFormed
  \/ CoroutineOnRequestDone
  \/ CoroutineHandleError

\* C21: error handling in the Coroutine cannot loop. Each exchange forms at
\* most one error Response; a step of handleError taken when an error Response
\* has been formed for the exchange ends the Coroutine with the Error and
\* forms nothing; and whenever the Coroutine is in the middle of an exchange
\* it gets to the next header read (act) or to its end.
C21_ErrorHandlingCannotLoop ==
  /\ [](ErrorResponsesFormed(asyncCalls) <= 1)
  /\ [][ (asyncPc = "handleError" /\ asyncPc' # "handleError"
          /\ ErrorResponsesFormed(asyncCalls) >= 1)
           => /\ asyncPc' = "error"
              /\ m_currentResponse' = m_currentResponse
              /\ asyncCalls' = asyncCalls
     ]_vars
  /\ AsyncInExchange ~> asyncPc \in {"act", "finished", "error"}

\* handleError has formed the Response of status 500 for the exchange, its
\* sendAsync has failed with an Error other than a broken pipe, and the
\* Coroutine has ended with that Error
C21_Witness ==
  /\ asyncPc = "error"
  /\ m_currentResponse.status = 500
  /\ m_currentResponse.by = "errorHandler"
  /\ ErrorResponsesFormed(asyncCalls) = 1
  /\ InFlight(asyncCalls)
  /\ asyncError = AsyncIOError("ZERO_VALUE")

(***************************************************************************)
(* Specifications                                                          *)
(***************************************************************************)
Init == InitRegistry /\ InitTransport /\ InitHttp

SpecRegistry == Init /\ [][NextRegistry]_vars

SpecTransport == Init /\ [][NextTransport]_vars

SpecRendezvous == Init /\ [][NextRendezvous]_vars /\ FairRendezvous

SpecHttp == Init /\ [][NextHttp]_vars

\* the executor of the coroutine runs the continuation the coroutine yields to
SpecCoroutineScheduled == Init /\ [][NextHttp]_vars /\ WF_vars(CoroutineContinues)
====
